---------------------------- MODULE Spec2Model ----------------------------
(***************************************************************************)
(* A model of the drag-annotation tools: the PyQt annotator                *)
(* (src/drag_generator.py) and the Flask viewer (src/app.py).              *)
(*                                                                         *)
(*   Spec        the annotator window with its two image labels and the    *)
(*               JSON files it writes                                      *)
(*   SpecSave    the same window driven by clicks, up to one save          *)
(*   SpecResave  the same window driven by clicks, up to two saves         *)
(*   SpecPoints  a point session on the first frame                        *)
(*   SpecFolders the window with two folders to choose from, up to one     *)
(*               save                                                      *)
(*   SpecMap     the display <-> original coordinate mapping of a label,   *)
(*               applied to bounded inputs                                 *)
(*   SpecViewer  the viewer's page and update_caption requests on the      *)
(*               data tree                                                 *)
(*   SpecDescribe the viewer's describe_images requests                    *)
(*   SpecShared  the annotator's saves and the viewer's update_caption on  *)
(*               one disk                                                  *)
(*   SpecPaths   the name of the output file, applied to two frame pairs   *)
(*   SpecDirs    the viewer's remove_empty_dirs, applied to bounded trees  *)
(***************************************************************************)
EXTENDS Integers, Sequences, FiniteSets, TLC

VARIABLES
    win,        \* ImageSelectionWindow: its fields and its buttons' enabled flags
    single,     \* SingleImageDisplayLabel (point session)
    combined,   \* CombinedImageLabel (mask session)
    labelSize,  \* size of the contents rectangle of the image label that is shown
    leftHeld,   \* the left mouse button is held down over the image label shown
    files,      \* JSON files on disk: path -> content (a sequence of tokens)
    lastMessage,\* the last QMessageBox shown
    lastEmit,   \* the signals the image labels emitted in the last handler
    nSaves,     \* number of times save_coordinates_to_json has written a file
    crashed,    \* an event handler raised (IndexError): the application ended
    limits,     \* the bounds of the run: points per session list, save runs,
                \* the positions of the mouse events on the two labels, and
                \* the folders of the folder list that are clicked
    probe,      \* SpecMap, SpecPaths, SpecDirs: the inputs and results of the
                \* function that is applied
    tree,       \* SpecViewer: the files of the viewer's working directory
    reqs        \* the viewer's requests, in progress or answered

vars == <<win, single, combined, labelSize, leftHeld, files, lastMessage, lastEmit,
          nSaves, crashed, limits, probe, tree, reqs>>

-----------------------------------------------------------------------------
(* Values shared by the components *)

\* Python's None where a QPoint is expected
NoneP == <<-1, -1>>

\* QPoint.__bool__: a QPoint is false exactly when it is null, that is (0, 0)
Truthy(p) == p /= NoneP /\ p /= <<0, 0>>

\* QPixmap(): the null pixmap has no size
NullPixmap == <<0, 0>>

\* QRect(): the null rectangle
NullRect == [x |-> 0, y |-> 0, w |-> 0, h |-> 0]

Abs(n) == IF n < 0 THEN -n ELSE n

Min(a, b) == IF a <= b THEN a ELSE b

Max(a, b) == IF a >= b THEN a ELSE b

\* C++ integer division, which truncates toward zero
TruncDiv(a, b) == IF a >= 0 THEN a \div b ELSE -((-a) \div b)

-----------------------------------------------------------------------------
(* Python float arithmetic: int(x * (a / b)) for integers x >= 0, a, b >= 1. *)
(* a / b is rounded to a double, the product is rounded again, and int()     *)
(* truncates.  The result differs from the exact floor only when b divides   *)
(* x*a and the rounded product falls just below the integer x*a/b; whether   *)
(* it does is decided here with integer arithmetic on the 53-bit roundings.  *)

RECURSIVE Pow2(_)
Pow2(n) == IF n <= 0 THEN 1 ELSE 2 * Pow2(n - 1)

RECURSIVE Pow2Mod(_, _)
\* 2^n mod m
Pow2Mod(n, m) == IF n <= 0 THEN 1 % m ELSE (2 * Pow2Mod(n - 1, m)) % m

RECURSIVE FloorLog2Ratio(_, _)
\* the e with 2^e <= a/b < 2^(e+1)
FloorLog2Ratio(a, b) ==
    IF a >= 2 * b THEN 1 + FloorLog2Ratio(a, 2 * b)
    ELSE IF a < b THEN FloorLog2Ratio(2 * a, b) - 1
    ELSE 0

RECURSIVE CeilLog2Minus1(_)
\* the k with 2^k < q <= 2^(k+1), for q >= 1
CeilLog2Minus1(q) == IF q <= 1 THEN -1 ELSE 1 + CeilLog2Minus1((q + 1) \div 2)

\* does the double a / b lie below the exact quotient, and by which remainder
QuotientRem(a, b) == ((a % b) * Pow2Mod(52 - FloorLog2Ratio(a, b), b)) % b

QuotientRoundsDown(a, b) ==
    LET rem == QuotientRem(a, b)
        sh  == 52 - FloorLog2Ratio(a, b)
        r2  == ((a % (2 * b)) * Pow2Mod(sh, 2 * b)) % (2 * b)
    IN  /\ rem /= 0
        /\ \/ 2 * rem < b
           \/ 2 * rem = b /\ ((r2 - rem) \div b) % 2 = 0

PyIntMulDiv(x, a, b) ==
    LET n == x * a
        q == n \div b
    IN  IF n % b /= 0 \/ q = 0 THEN q
        ELSE IF ~QuotientRoundsDown(a, b) THEN q
        ELSE LET t   == FloorLog2Ratio(a, b) + 1 - CeilLog2Minus1(q)
                 lhs == x * QuotientRem(a, b) * (IF t >= 0 THEN Pow2(t) ELSE 1)
                 rhs == b * (IF t >= 0 THEN 1 ELSE Pow2(-t))
             IN  IF lhs > rhs THEN q - 1 ELSE q

-----------------------------------------------------------------------------
(* Geometry of an image label *)

\* the style sheet "border: 1px solid gray" puts the label's contents
\* rectangle one pixel inside the widget
BorderWidth == 1

\* QLabel.contentsRect() of a label whose contents are size[1] x size[2]
contentsRect(size) == [x |-> BorderWidth, y |-> BorderWidth, w |-> size[1], h |-> size[2]]

\* QSize.scaled(s, Qt.KeepAspectRatio)
ScaledKeepAspect(pix, s) ==
    IF pix[1] = 0 \/ pix[2] = 0 THEN s
    ELSE LET rw == (s[2] * pix[1]) \div pix[2]
         IN  IF rw <= s[1] THEN <<rw, s[2]>>
             ELSE <<s[1], (s[1] * pix[2]) \div pix[1]>>

\* QRect(QPoint(0, 0), size) followed by moveCenter(label_rect.center())
CenteredRect(size, label_rect) ==
    LET cx == TruncDiv(label_rect.x + (label_rect.x + label_rect.w - 1), 2)
        cy == TruncDiv(label_rect.y + (label_rect.y + label_rect.h - 1), 2)
    IN  [x |-> cx - TruncDiv(size[1] - 1, 2),
         y |-> cy - TruncDiv(size[2] - 1, 2),
         w |-> size[1], h |-> size[2]]

\* update_display: the rectangle in which the scaled pixmap is drawn
DrawnRect(pix, size) ==
    IF pix /= NullPixmap
    THEN CenteredRect(ScaledKeepAspect(pix, size), contentsRect(size))
    ELSE NullRect

\* QRect.isNull()
RectIsNull(r) == r.w = 0 /\ r.h = 0

\* a rectangle test that leaves out the right and the bottom edge
RectContainsExclusive(r, p) ==
    /\ ~RectIsNull(r)
    /\ r.x <= p[1] /\ p[1] < r.x + r.w - 1
    /\ r.y <= p[2] /\ p[2] < r.y + r.h - 1

\* QRect.contains(QPoint)
RectContains(r, p) ==
    /\ ~RectIsNull(r)
    /\ r.x <= p[1] /\ p[1] <= r.x + r.w - 1
    /\ r.y <= p[2] /\ p[2] <= r.y + r.h - 1

\* QPoint.manhattanLength() of a - b
ManhattanLength(a, b) == Abs(a[1] - b[1]) + Abs(a[2] - b[2])

\* the pixel radius within which a click is on an existing point
HitRadius == 15

OriginalFromDisplayClamped(v, dim) == Max(0, Min(v, dim - 1))

\* lines 89-90: the mapped coordinate is kept inside the original image
ClampToImage(v, dim) == OriginalFromDisplayClamped(v, dim)

\* a mapping that returns the position on the scaled image as it is
OriginalFromDisplayUnscaled(pix, rect, display_point) ==
    IF pix = NullPixmap \/ RectIsNull(rect) THEN NoneP
    ELSE IF ~RectContains(rect, display_point) THEN NoneP
    ELSE <<display_point[1] - rect.x, display_point[2] - rect.y>>

OriginalFromDisplay(pix, rect, display_point) ==
    IF pix = NullPixmap \/ RectIsNull(rect) THEN NoneP
    ELSE IF ~RectContains(rect, display_point) THEN NoneP
    ELSE LET x_on_scaled == display_point[1] - rect.x
             y_on_scaled == display_point[2] - rect.y
             original_x  == PyIntMulDiv(x_on_scaled, pix[1], rect.w)
             original_y  == PyIntMulDiv(y_on_scaled, pix[2], rect.h)
         IN  <<ClampToImage(original_x, pix[1]), ClampToImage(original_y, pix[2])>>

\* a display mapping that forgets where the drawn rectangle starts
DisplayFromOriginalNoOffset(pix, rect, original_point) ==
    IF pix = NullPixmap \/ RectIsNull(rect) THEN NoneP
    ELSE <<PyIntMulDiv(original_point[1], rect.w, pix[1]),
           PyIntMulDiv(original_point[2], rect.h, pix[2])>>

DisplayFromOriginal(pix, rect, original_point) ==
    IF pix = NullPixmap \/ RectIsNull(rect) THEN NoneP
    ELSE <<rect.x + PyIntMulDiv(original_point[1], rect.w, pix[1]),
           rect.y + PyIntMulDiv(original_point[2], rect.h, pix[2])>>

-----------------------------------------------------------------------------
(* The files the tools work on.  A file name and a directory name are        *)
(* sequences of text pieces ("a" ".png"), a path is a sequence of names.     *)

\* the directory the viewer runs in, and BASE_DIR = 'data' below it
WorkDir == << <<"app">> >>

BASE_DIR == << <<"data">> >>

DataRoot == WorkDir \o BASE_DIR

\* Supported image file extensions
IMAGE_EXTENSIONS == {".png", ".jpg", ".jpeg", ".gif", ".bmp", ".tiff", ".webp"}

\* Python's None where a path is expected
NoPath == << >>

Folder1 == DataRoot \o << <<"f1">> >>

Folder2 == DataRoot \o << <<"f2">> >>

Folder3 == DataRoot \o << <<"f3">> >>

Folder4 == DataRoot \o << <<"f4">> >>

\* a folder inside a folder of the data root
Nested == Folder3 \o << <<"sub">> >>

\* os.listdir(root_dir): the entries for which os.path.isdir holds
SubDirs(root_dir) ==
    IF root_dir = WorkDir THEN <<DataRoot>>
    ELSE IF root_dir = DataRoot THEN <<Folder1, Folder2, Folder3, Folder4>>
    ELSE IF root_dir = Folder3 THEN <<Nested>>
    ELSE << >>

\* os.listdir(folder): the image and other files of a folder (the JSON files
\* the annotator writes are kept in the variable files)
ListDir(folder) ==
    IF folder = Folder1 THEN {<<"a", ".png">>, <<"b", ".PNG">>, <<"notes", ".txt">>}
    ELSE IF folder = Folder2 THEN {<<"c", ".png">>, <<"d", ".png">>}
    ELSE IF folder = Folder3 THEN {<<"e", ".png">>, <<"sub">>}
    ELSE IF folder = Folder4
    THEN {<<"k", ".png", ".bak">>, <<"png">>, <<"m", ".webp">>, <<"n", ".txt">>}
    ELSE IF folder = Nested THEN {<<"g", ".jpg">>, <<"h", ".JPEG">>}
    ELSE IF folder = DataRoot
    THEN {<<"f1">>, <<"f2">>, <<"f3">>, <<"f4">>, <<"x", ".png">>, <<"y", ".gif">>}
    ELSE IF folder = WorkDir THEN {<<"data">>}
    ELSE {}

\* the order of str.sort() on the names above (upper case before lower case)
NameRank(name) ==
    IF name = <<"a", ".png">> THEN 1
    ELSE IF name = <<"b", ".PNG">> THEN 2
    ELSE IF name = <<"c", ".png">> THEN 3
    ELSE IF name = <<"d", ".png">> THEN 4
    ELSE IF name = <<"e", ".png">> THEN 5
    ELSE 6

\* QPixmap(path): the pixel size of the image, null when it cannot be decoded
PixmapOf(path) ==
    IF path = Folder1 \o << <<"a", ".png">> >> THEN <<4, 3>>
    ELSE IF path = Folder1 \o << <<"b", ".PNG">> >> THEN <<3, 1>>
    ELSE IF path = Folder2 \o << <<"c", ".png">> >> THEN <<4, 3>>
    ELSE IF path = Folder2 \o << <<"d", ".png">> >> THEN <<4, 3>>
    ELSE IF path = Folder3 \o << <<"e", ".png">> >> THEN <<4, 3>>
    ELSE NullPixmap

\* os.path.basename, os.path.dirname, os.path.splitext(...)[0]
basename(path) == path[Len(path)]

dirname(path) == SubSeq(path, 1, Len(path) - 1)

splitext0(name) ==
    IF Len(name) >= 2 /\ name[Len(name)] \in
           (IMAGE_EXTENSIONS \cup {".PNG", ".txt", ".json"})
    THEN SubSeq(name, 1, Len(name) - 1)
    ELSE name

\* str.lower() of a file name's last piece
Lower(piece) ==
    IF piece = ".PNG" THEN ".png"
    ELSE IF piece = ".JPEG" THEN ".jpeg"
    ELSE piece

\* any(file_name.lower().endswith(ext) for ext in IMAGE_EXTENSIONS)
IsImageName(name) == Len(name) >= 1 /\ Lower(name[Len(name)]) \in IMAGE_EXTENSIONS

\* os.path.exists(path) for an image path
ImageExists(path) ==
    /\ Len(path) >= 1
    /\ basename(path) \in ListDir(dirname(path))

RECURSIVE SortNames(_)
\* sorted(): the names of a set in ascending order
SortNames(S) ==
    IF S = {} THEN << >>
    ELSE LET least == CHOOSE n \in S : \A m \in S : NameRank(n) <= NameRank(m)
         IN  <<least>> \o SortNames(S \ {least})

\* the sorted image paths of a folder (select_folder, lines 773-778)
ImagePathsOf(folder) ==
    LET names == SortNames({n \in ListDir(folder) : IsImageName(n)})
    IN  [i \in 1..Len(names) |-> folder \o <<names[i]>>]

-----------------------------------------------------------------------------
(* JSON text.  A file's content is a sequence of tokens; json.dump writes    *)
(* an object as its pairs in insertion order, a string as its pieces         *)
(* between quotes, a list of points as its points between brackets.          *)

Tok(kind, text) == [k |-> kind, c |-> text, n |-> << >>]

PtTok(p) == [k |-> "pt", c |-> "", n |-> p]

\* JSON values: a string, a list of {"x": .., "y": ..} objects, null
JStr(s) == [t |-> "str", s |-> s, p |-> << >>]

JPts(ps) == [t |-> "pts", s |-> << >>, p |-> ps]

JNull == [t |-> "null", s |-> << >>, p |-> << >>]

EncodeValue(v) ==
    IF v.t = "str"
    THEN <<Tok("punct", "\"")>> \o [i \in 1..Len(v.s) |-> Tok("chr", v.s[i])]
             \o <<Tok("punct", "\"")>>
    ELSE IF v.t = "pts"
    THEN <<Tok("punct", "[")>> \o [i \in 1..Len(v.p) |-> PtTok(v.p[i])]
             \o <<Tok("punct", "]")>>
    ELSE <<Tok("punct", "null")>>

RECURSIVE EncodePairs(_)
EncodePairs(pairs) ==
    IF pairs = << >> THEN << >>
    ELSE <<Tok("key", pairs[1][1])>> \o EncodeValue(pairs[1][2])
             \o EncodePairs(Tail(pairs))

\* json.dump(obj, f, indent=4, ensure_ascii=False) of a dict, given as the
\* sequence of its <<key, value>> pairs
Dumps(pairs) == <<Tok("punct", "{")>> \o EncodePairs(pairs) \o <<Tok("punct", "}")>>

\* the result of a json.load that raises JSONDecodeError
LoadError == [ok |-> FALSE, obj |-> << >>, none |-> FALSE, error |-> "JSONDecodeError"]

\* the result of a json.load whose f.read() raises UnicodeDecodeError
DecodeError == [ok |-> FALSE, obj |-> << >>, none |-> FALSE, error |-> "UnicodeDecodeError"]

\* the result of a json.load that returns a dict, and of one that returns None
Loaded(pairs) == [ok |-> TRUE, obj |-> pairs, none |-> FALSE, error |-> ""]

LoadedNone == [ok |-> TRUE, obj |-> << >>, none |-> TRUE, error |-> ""]

RECURSIVE ScanTo(_, _, _)
\* the index of the first token at or after i that is the punctuation text
\* (0 when there is none)
ScanTo(tokens, i, text) ==
    IF i > Len(tokens) THEN 0
    ELSE IF tokens[i].k = "punct" /\ tokens[i].c = text THEN i
    ELSE ScanTo(tokens, i + 1, text)

RECURSIVE ParsePairs(_, _, _)
\* the pairs of an object from token i on, up to the closing brace that ends
\* the text
ParsePairs(tokens, i, acc) ==
    IF i > Len(tokens) THEN LoadError
    ELSE IF tokens[i].k = "punct" /\ tokens[i].c = "}"
    THEN IF i = Len(tokens) THEN Loaded(acc) ELSE LoadError
    ELSE IF tokens[i].k /= "key" \/ i + 1 > Len(tokens) THEN LoadError
    ELSE LET key == tokens[i].c
             v   == tokens[i + 1]
         IN  IF v.k = "punct" /\ v.c = "null"
             THEN ParsePairs(tokens, i + 2, Append(acc, <<key, JNull>>))
             ELSE IF v.k = "punct" /\ v.c = "\""
             THEN LET j == ScanTo(tokens, i + 2, "\"")
                  IN  IF j = 0 \/ \E m \in (i + 2)..(j - 1) : tokens[m].k /= "chr"
                      THEN LoadError
                      ELSE ParsePairs(tokens, j + 1, Append(acc,
                               <<key, JStr([m \in 1..(j - i - 2) |-> tokens[i + 1 + m].c])>>))
             ELSE IF v.k = "punct" /\ v.c = "["
             THEN LET j == ScanTo(tokens, i + 2, "]")
                  IN  IF j = 0 \/ \E m \in (i + 2)..(j - 1) : tokens[m].k /= "pt"
                      THEN LoadError
                      ELSE ParsePairs(tokens, j + 1, Append(acc,
                               <<key, JPts([m \in 1..(j - i - 2) |-> tokens[i + 1 + m].n])>>))
             ELSE LoadError

\* json.load(f) of a file holding the tokens: the text is decoded (a byte
\* that is not UTF-8 fails), then parsed as the text null or as an object
Loads(tokens) ==
    IF \E i \in 1..Len(tokens) : tokens[i].k = "byte" THEN DecodeError
    ELSE IF tokens = <<Tok("punct", "null")>> THEN LoadedNone
    ELSE IF Len(tokens) = 0 \/ tokens[1] /= Tok("punct", "{") THEN LoadError
    ELSE ParsePairs(tokens, 2, << >>)

\* dict access: has the object the key, and the value of a key it has
HasKey(obj, key) == \E i \in 1..Len(obj) : obj[i][1] = key

Get(obj, key) == obj[CHOOSE i \in 1..Len(obj) : obj[i][1] = key][2]

\* obj[key] = value: replaces the value in place, or appends a new pair
SetKey(obj, key, value) ==
    IF HasKey(obj, key)
    THEN [i \in 1..Len(obj) |-> IF obj[i][1] = key THEN <<key, value>> ELSE obj[i]]
    ELSE Append(obj, <<key, value>>)

-----------------------------------------------------------------------------
(* The annotator.  Its methods are operators on the record w of the window,  *)
(* the two image labels and what the call has shown, emitted and raised; an  *)
(* emitted signal runs the connected slot before the emitting method goes on.*)

\* bounds of the model
MaxPoints == 1

MaxSaves == 1

\* the mask is a quadrilateral
MaskSize == 4

\* sizes of an image label's contents rectangle
LabelSizes == {<<40, 30>>, <<10, 10>>}

InitialLabelSize == <<40, 30>>

\* positions of the mouse events, in label coordinates
Positions == {<<1, 1>>, <<22, 22>>, <<29, 29>>, <<100, 100>>}

Directories == {DataRoot}

\* no signal emitted: signal and arg are the last emission of a handler,
\* points_changed and mask_points_changed hold the argument of the handler's
\* last emission of that signal (<< >> when there was none)
NoEmit == [signal |-> "", arg |-> << >>,
           points_changed |-> << >>, mask_points_changed |-> << >>]

NoMessage == ""

RemoveAt(seq, i) == [j \in 1..(Len(seq) - 1) |-> IF j < i THEN seq[j] ELSE seq[j + 1]]

SaveGateAll(wn) ==
    /\ wn.image_path_frame1 /= NoPath
    /\ wn.image_path_frame2 /= NoPath
    /\ Len(wn.mask_points_on_combined) = MaskSize
    /\ Len(wn.source_points_on_frame1) > 0
    /\ Len(wn.source_points_on_frame1) = Len(wn.target_points_on_frame2)

SaveGateNoMask(wn) ==
    /\ wn.image_path_frame1 /= NoPath
    /\ wn.image_path_frame2 /= NoPath
    /\ Len(wn.source_points_on_frame1) > 0
    /\ Len(wn.source_points_on_frame1) = Len(wn.target_points_on_frame2)

\* the condition of check_save_button_status
SaveGate(wn) == SaveGateAll(wn)

check_save_button_status(w) == [w EXCEPT !.win.save_button = SaveGate(w.win)]

\* a slot that sets the text of the coordinate label and stores nothing
UpdatePointsLabelOnly(w, points) == check_save_button_status(w)

\* slot of SingleImageDisplayLabel.points_changed; list(points) is a copy
update_single_image_points_display(w, points) ==
    check_save_button_status(
        IF w.win.current_point_selection_target = "frame1_points"
        THEN [w EXCEPT !.win.source_points_on_frame1 = points]
        ELSE IF w.win.current_point_selection_target = "frame2_points"
        THEN [w EXCEPT !.win.target_points_on_frame2 = points]
        ELSE w)

\* slot of CombinedImageLabel.mask_points_changed.  The window keeps the list
\* object it is handed: shared tells whether that object is the mask label's
\* own mask_points list, which the label goes on changing in place.
update_mask_coord_label(w, points, shared) ==
    check_save_button_status(
        [w EXCEPT !.win.mask_points_on_combined = points,
                  !.win.mask_shared = shared])

\* self.points_changed.emit(self.current_points)
emit_points_changed(w) ==
    update_single_image_points_display(
        [w EXCEPT !.emit = [@ EXCEPT !.signal = "points_changed",
                                     !.arg = w.single.current_points,
                                     !.points_changed = <<w.single.current_points>>]],
        w.single.current_points)

\* self.mask_points_changed.emit(self.mask_points)
emit_mask_points_changed(w) ==
    update_mask_coord_label(
        [w EXCEPT !.emit = [@ EXCEPT !.signal = "mask_points_changed",
                                     !.arg = w.combined.mask_points,
                                     !.mask_points_changed = <<w.combined.mask_points>>]],
        w.combined.mask_points, TRUE)

(* SingleImageDisplayLabel *)

single_update_display(w) ==
    [w EXCEPT !.single._drawn_pixmap_rect =
                  DrawnRect(w.single._original_pixmap, w.label_size)]

SetImageClearing(w, image_path) ==
    LET exists == image_path /= NoPath /\ ImageExists(image_path)
        w1 == [w EXCEPT !.single.current_points = << >>,
                        !.single._original_pixmap =
                            IF exists THEN PixmapOf(image_path) ELSE NullPixmap]
    IN  emit_points_changed(IF exists THEN single_update_display(w1) ELSE w1)

\* a load that keeps the points of the image shown before
SetImageKeeping(w, image_path) ==
    LET exists == image_path /= NoPath /\ ImageExists(image_path)
        w1 == [w EXCEPT !.single._original_pixmap =
                            IF exists THEN PixmapOf(image_path) ELSE NullPixmap]
    IN  emit_points_changed(IF exists THEN single_update_display(w1) ELSE w1)

set_image(w, image_path) == SetImageClearing(w, image_path)

single_resizeEvent(w, size) == single_update_display([w EXCEPT !.label_size = size])

single_get_original_point_from_display(s, display_point) ==
    OriginalFromDisplay(s._original_pixmap, s._drawn_pixmap_rect, display_point)

single_get_display_point_from_original(s, original_point) ==
    DisplayFromOriginal(s._original_pixmap, s._drawn_pixmap_rect, original_point)

\* the loop of the hit test: the index (from 0) of the first point whose
\* display projection is within the radius of pos, -1 when there is none
FirstHit(points, pix, rect, pos) ==
    LET hit(i) == LET p_display == DisplayFromOriginal(pix, rect, points[i])
                  IN  Truthy(p_display) /\ ManhattanLength(pos, p_display) < HitRadius
    IN  IF \E i \in 1..Len(points) : hit(i)
        THEN (CHOOSE i \in 1..Len(points) : hit(i) /\ \A j \in 1..(i - 1) : ~hit(j)) - 1
        ELSE -1

single_mousePressEvent(w, pos, button) ==
    LET s == w.single
        original_pos == single_get_original_point_from_display(s, pos)
        hit == FirstHit(s.current_points, s._original_pixmap, s._drawn_pixmap_rect, pos)
    IN  IF ~s.point_mode_enabled \/ s._original_pixmap = NullPixmap THEN w
        ELSE IF ~Truthy(original_pos) THEN w
        ELSE IF button = "left"
        THEN emit_points_changed(
                 [w EXCEPT !.single.dragging_point_index = hit,
                           !.single.current_points =
                               IF hit = -1 THEN Append(@, original_pos) ELSE @])
        ELSE IF hit /= -1
        THEN emit_points_changed(
                 [w EXCEPT !.single.current_points = RemoveAt(@, hit + 1)])
        ELSE w

single_mouseMoveEvent(w, pos, held) ==
    LET s == w.single
        new_original_pos == single_get_original_point_from_display(s, pos)
    IN  IF ~s.point_mode_enabled \/ s._original_pixmap = NullPixmap THEN w
        ELSE IF s.dragging_point_index /= -1 /\ "left" \in held
        THEN IF ~Truthy(new_original_pos) THEN w
             ELSE IF s.dragging_point_index >= Len(s.current_points)
             THEN [w EXCEPT !.raised = TRUE]
             ELSE emit_points_changed(
                      [w EXCEPT !.single.current_points[s.dragging_point_index + 1] =
                                    new_original_pos])
        ELSE w

\* a release that announces the list and leaves the drag as it is
ReleaseKeepingDrag(w) ==
    IF ~w.single.point_mode_enabled THEN w
    ELSE emit_points_changed(w)

single_mouseReleaseEvent(w) ==
    IF ~w.single.point_mode_enabled THEN w
    ELSE emit_points_changed([w EXCEPT !.single.dragging_point_index = -1])

\* a disabling that also empties the lists the window has stored
SetPointModeForgetting(w, enabled) ==
    [w EXCEPT !.single.point_mode_enabled = enabled,
              !.win.source_points_on_frame1 = IF enabled THEN @ ELSE << >>,
              !.win.target_points_on_frame2 = IF enabled THEN @ ELSE << >>]

set_point_mode_enabled(w, enabled) == [w EXCEPT !.single.point_mode_enabled = enabled]

reset_points(w) == emit_points_changed([w EXCEPT !.single.current_points = << >>])

(* CombinedImageLabel *)

combined_update_display(w) ==
    [w EXCEPT !.combined._drawn_pixmap_rect =
                  DrawnRect(w.combined.combined_pixmap, w.label_size)]

\* the combined pixmap has the size of the first pixmap; it is null when
\* either pixmap is
_combine_pixmaps(w, pixmap1, pixmap2) ==
    IF pixmap1 = NullPixmap \/ pixmap2 = NullPixmap
    THEN [w EXCEPT !.combined.combined_pixmap = NullPixmap,
                   !.combined._drawn_pixmap_rect = NullRect]
    ELSE combined_update_display([w EXCEPT !.combined.combined_pixmap = pixmap1])

\* self.mask_points = [] binds a new list: a list the window was handed
\* before stays as it is
RebindMaskPoints(w) ==
    [w EXCEPT !.combined.mask_points = << >>, !.win.mask_shared = FALSE]

\* a change of the mask_points list in place, seen through every reference
MutateMaskPoints(w, points) ==
    [w EXCEPT !.combined.mask_points = points,
              !.win.mask_points_on_combined = IF w.win.mask_shared THEN points ELSE @]

set_images(w, image_path1, image_path2) ==
    _combine_pixmaps(RebindMaskPoints(w),
        IF image_path1 /= NoPath THEN PixmapOf(image_path1) ELSE NullPixmap,
        IF image_path2 /= NoPath THEN PixmapOf(image_path2) ELSE NullPixmap)

combined_resizeEvent(w, size) == combined_update_display([w EXCEPT !.label_size = size])

combined_get_original_point_from_display(c, display_point) ==
    OriginalFromDisplay(c.combined_pixmap, c._drawn_pixmap_rect, display_point)

combined_get_display_point_from_original(c, original_point) ==
    DisplayFromOriginal(c.combined_pixmap, c._drawn_pixmap_rect, original_point)

MaskAppendLimited(w, original_pos) ==
    IF Len(w.combined.mask_points) < MaskSize
    THEN LET w1 == MutateMaskPoints(w, Append(w.combined.mask_points, original_pos))
         IN  IF Len(w1.combined.mask_points) = MaskSize
             THEN emit_mask_points_changed(w1)
             ELSE w1
    ELSE w

MaskAppendUnlimited(w, original_pos) ==
    LET w1 == MutateMaskPoints(w, Append(w.combined.mask_points, original_pos))
    IN  IF Len(w1.combined.mask_points) = MaskSize
        THEN emit_mask_points_changed(w1)
        ELSE w1

\* lines 369-374: a left click that hits no handle adds a point
MaskAppend(w, original_pos) == MaskAppendLimited(w, original_pos)

\* a press handler with the right-button branch of the point label (lines
\* 136-142) added to it
CombinedPressRemoving(w, pos, button) ==
    LET c == w.combined
        original_pos == combined_get_original_point_from_display(c, pos)
        hit == FirstHit(c.mask_points, c.combined_pixmap, c._drawn_pixmap_rect, pos)
    IN  IF ~c.mask_mode_enabled \/ c.combined_pixmap = NullPixmap THEN w
        ELSE IF ~Truthy(original_pos) THEN w
        ELSE IF button = "left"
        THEN LET w1 == [w EXCEPT !.combined.dragging_point_index = hit]
             IN  IF hit /= -1 THEN w1 ELSE MaskAppend(w1, original_pos)
        ELSE IF hit /= -1
        THEN emit_mask_points_changed(
                 MutateMaskPoints(w, [i \in 1..(Len(c.mask_points) - 1) |->
                                         IF i < hit + 1 THEN c.mask_points[i]
                                         ELSE c.mask_points[i + 1]]))
        ELSE w

combined_mousePressEvent(w, pos, button) ==
    LET c == w.combined
        original_pos == combined_get_original_point_from_display(c, pos)
        hit == FirstHit(c.mask_points, c.combined_pixmap, c._drawn_pixmap_rect, pos)
    IN  IF ~c.mask_mode_enabled \/ c.combined_pixmap = NullPixmap THEN w
        ELSE IF ~Truthy(original_pos) THEN w
        ELSE IF button = "left"
        THEN LET w1 == [w EXCEPT !.combined.dragging_point_index = hit]
             IN  IF hit /= -1 THEN w1 ELSE MaskAppend(w1, original_pos)
        ELSE w

combined_mouseMoveEvent(w, pos, held) ==
    LET c == w.combined
        new_original_pos == combined_get_original_point_from_display(c, pos)
    IN  IF ~c.mask_mode_enabled \/ c.combined_pixmap = NullPixmap THEN w
        ELSE IF c.dragging_point_index /= -1 /\ "left" \in held
        THEN IF ~Truthy(new_original_pos) THEN w
             ELSE IF c.dragging_point_index >= Len(c.mask_points)
             THEN [w EXCEPT !.raised = TRUE]
             ELSE emit_mask_points_changed(
                      MutateMaskPoints(w,
                          [c.mask_points EXCEPT ![c.dragging_point_index + 1] =
                               new_original_pos]))
        ELSE w

combined_mouseReleaseEvent(w) ==
    IF ~w.combined.mask_mode_enabled THEN w
    ELSE emit_mask_points_changed([w EXCEPT !.combined.dragging_point_index = -1])

\* a setter that turns the mask mode on and never off
SetMaskModeOnOnly(w, enabled) ==
    [w EXCEPT !.combined.mask_mode_enabled = @ \/ enabled]

set_mask_mode_enabled(w, enabled) == [w EXCEPT !.combined.mask_mode_enabled = enabled]

\* a reset that emits nothing
ResetMaskSilently(w) == RebindMaskPoints(w)

reset_mask(w) == emit_mask_points_changed(RebindMaskPoints(w))

(* ImageSelectionWindow *)

\* single_image_display_label.show() / combined_image_display_label.hide()
ShowSingle(w) == [w EXCEPT !.win.visible = "single"]

ShowCombined(w) == [w EXCEPT !.win.visible = "combined"]

display_single_image(w, image_path) ==
    LET w1 == set_image(
                  ShowSingle(set_mask_mode_enabled(
                      [w EXCEPT !.win.current_display_mode = "single_image"], FALSE)),
                  image_path)
    IN  IF /\ w1.win.current_point_selection_target = "frame1_points"
           /\ image_path = w1.win.image_path_frame1
        THEN [set_point_mode_enabled(w1, TRUE) EXCEPT
                  !.single.current_points = w1.win.source_points_on_frame1]
        ELSE IF /\ w1.win.current_point_selection_target = "frame2_points"
                /\ image_path = w1.win.image_path_frame2
        THEN [set_point_mode_enabled(w1, TRUE) EXCEPT
                  !.single.current_points = w1.win.target_points_on_frame2]
        ELSE reset_points(set_point_mode_enabled(w1, FALSE))

display_combined_image(w) ==
    check_save_button_status(
        IF w.win.image_path_frame1 /= NoPath /\ w.win.image_path_frame2 /= NoPath
        THEN [ShowCombined(
                  set_images(
                      set_point_mode_enabled(
                          [w EXCEPT !.win.current_display_mode = "combined_mask"], FALSE),
                      w.win.image_path_frame1, w.win.image_path_frame2))
              EXCEPT !.win.toggle_mask_mode_button = TRUE,
                     !.win.reset_mask_button = TRUE]
        ELSE [ShowSingle(set_mask_mode_enabled(set_images(w, NoPath, NoPath), FALSE))
              EXCEPT !.win.toggle_mask_mode_button = FALSE,
                     !.win.reset_mask_button = FALSE])

update_navigation_buttons(w) ==
    IF Len(w.win.image_files_in_folder) > 0
    THEN [w EXCEPT !.win.prev_image_button = w.win.current_image_index > 0,
                   !.win.next_image_button =
                       w.win.current_image_index < Len(w.win.image_files_in_folder) - 1]
    ELSE [w EXCEPT !.win.prev_image_button = FALSE, !.win.next_image_button = FALSE]

clear_layouts(w) ==
    LET w1 == set_point_mode_enabled(reset_points(set_image(w, NoPath)), FALSE)
        w2 == ShowSingle(set_mask_mode_enabled(
                  reset_mask(set_images(w1, NoPath, NoPath)), FALSE))
    IN  [w2 EXCEPT !.win.folder_list = << >>,
                   !.win.thumbnail_grid = {},
                   !.win.current_selected_folder = NoPath,
                   !.win.image_files_in_folder = << >>,
                   !.win.current_image_index = 0,
                   !.win.image_path_frame1 = NoPath,
                   !.win.image_path_frame2 = NoPath,
                   !.win.mask_points_on_combined = << >>,
                   !.win.mask_shared = FALSE,
                   !.win.source_points_on_frame1 = << >>,
                   !.win.target_points_on_frame2 = << >>,
                   !.win.current_display_mode = "single_image",
                   !.win.current_point_selection_target = "",
                   !.win.prev_image_button = FALSE,
                   !.win.next_image_button = FALSE,
                   !.win.select_frame1_button = FALSE,
                   !.win.select_frame2_button = FALSE,
                   !.win.toggle_source_points_button = FALSE,
                   !.win.toggle_target_points_button = FALSE,
                   !.win.toggle_mask_mode_button = FALSE,
                   !.win.reset_mask_button = FALSE,
                   !.win.save_button = FALSE]

\* the number of image files of a folder
ImageCount(folder) == Cardinality({n \in ListDir(folder) : IsImageName(n)})

\* a scan that lists the folders with at least one image
ScanAtLeastOne(root_dir) == SelectSeq(SubDirs(root_dir), LAMBDA d : ImageCount(d) >= 1)

ScanMoreThanOne(root_dir) == SelectSeq(SubDirs(root_dir), LAMBDA d : ImageCount(d) > 1)

\* the folders scan_directory adds to the folder list
CandidateFolders(root_dir) == ScanMoreThanOne(root_dir)

scan_directory(w, root_dir) ==
    [w EXCEPT !.win.folder_list = @ \o CandidateFolders(root_dir)]

select_directory(w, directory) ==
    LET w1 == scan_directory(clear_layouts(w), directory)
    IN  w1

select_folder(w, folder_path) ==
    LET image_files == ImagePathsOf(folder_path)
        w1 == [w EXCEPT !.win.current_selected_folder = folder_path,
                        !.win.image_files_in_folder = image_files,
                        !.win.current_image_index = 0,
                        !.win.thumbnail_grid =
                            {i \in 0..(Len(image_files) - 1) :
                                 PixmapOf(image_files[i + 1]) /= NullPixmap}]
        w2 == IF Len(image_files) > 0
              THEN display_single_image(w1, image_files[1])
              ELSE set_image(w1, NoPath)
        w3 == update_navigation_buttons(w2)
    IN  check_save_button_status(
            [w3 EXCEPT !.win.select_frame1_button = TRUE,
                       !.win.select_frame2_button = TRUE,
                       !.win.toggle_source_points_button =
                           IF w3.win.image_path_frame1 /= NoPath THEN TRUE ELSE @,
                       !.win.toggle_target_points_button =
                           IF w3.win.image_path_frame2 /= NoPath THEN TRUE ELSE @])

_thumbnail_clicked(w, index) ==
    update_navigation_buttons(
        display_single_image([w EXCEPT !.win.current_image_index = index],
                             w.win.image_files_in_folder[index + 1]))

show_previous_image(w) ==
    IF w.win.current_image_index > 0
    THEN update_navigation_buttons(
             display_single_image(
                 [w EXCEPT !.win.current_image_index = @ - 1],
                 w.win.image_files_in_folder[w.win.current_image_index]))
    ELSE w

show_next_image(w) ==
    IF w.win.current_image_index < Len(w.win.image_files_in_folder) - 1
    THEN update_navigation_buttons(
             display_single_image(
                 [w EXCEPT !.win.current_image_index = @ + 1],
                 w.win.image_files_in_folder[w.win.current_image_index + 2]))
    ELSE w

update_frame_info_labels(w) ==
    LET both == w.win.image_path_frame1 /= NoPath /\ w.win.image_path_frame2 /= NoPath
    IN  check_save_button_status(
            [w EXCEPT !.win.toggle_mask_mode_button = both,
                      !.win.reset_mask_button = both])

set_frame1_image(w) ==
    IF w.win.current_selected_folder /= NoPath /\ Len(w.win.image_files_in_folder) > 0
    THEN LET path == w.win.image_files_in_folder[w.win.current_image_index + 1]
             w1 == update_frame_info_labels(
                       [w EXCEPT !.win.image_path_frame1 = path])
         IN  check_save_button_status(
                 display_single_image(
                     [w1 EXCEPT !.win.toggle_source_points_button = TRUE], path))
    ELSE w

set_frame2_image(w) ==
    IF w.win.current_selected_folder /= NoPath /\ Len(w.win.image_files_in_folder) > 0
    THEN LET path == w.win.image_files_in_folder[w.win.current_image_index + 1]
             w1 == update_frame_info_labels(
                       [w EXCEPT !.win.image_path_frame2 = path])
         IN  check_save_button_status(
                 display_single_image(
                     [w1 EXCEPT !.win.toggle_target_points_button = TRUE], path))
    ELSE w

toggle_point_selection_mode(w, target_points) ==
    LET w0 == set_mask_mode_enabled(w, FALSE)
        frame == IF target_points = "frame1_points"
                 THEN w0.win.image_path_frame1 ELSE w0.win.image_path_frame2
        w1 == set_point_mode_enabled(
                  [w0 EXCEPT !.win.current_point_selection_target = target_points], TRUE)
        w2 == display_single_image(w1, frame)
    IN  check_save_button_status(
            IF /\ w0.win.current_point_selection_target = target_points
               /\ w0.single.point_mode_enabled
            THEN [set_point_mode_enabled(w0, FALSE) EXCEPT
                      !.win.current_point_selection_target = ""]
            ELSE IF frame /= NoPath
            THEN [w2 EXCEPT !.single.current_points =
                      IF target_points = "frame1_points"
                      THEN w2.win.source_points_on_frame1
                      ELSE w2.win.target_points_on_frame2]
            ELSE [set_point_mode_enabled(w1, FALSE) EXCEPT
                      !.win.current_point_selection_target = ""])

\* a mask toggle that clears the point label before it drops the target
ToggleMaskResettingFirst(w) ==
    LET w1 == [reset_points(set_point_mode_enabled(w, FALSE)) EXCEPT
                   !.win.current_point_selection_target = ""]
        new_state == ~w1.combined.mask_mode_enabled
        w2 == set_mask_mode_enabled(w1, new_state)
    IN  check_save_button_status(
            IF new_state THEN display_combined_image(w2)
            ELSE IF Len(w2.win.image_files_in_folder) > 0
            THEN display_single_image(w2,
                     w2.win.image_files_in_folder[w2.win.current_image_index + 1])
            ELSE set_image(w2, NoPath))

toggle_mask_mode(w) ==
    LET w1 == reset_points(
                  [set_point_mode_enabled(w, FALSE) EXCEPT
                       !.win.current_point_selection_target = ""])
        new_state == ~w1.combined.mask_mode_enabled
        w2 == set_mask_mode_enabled(w1, new_state)
    IN  check_save_button_status(
            IF new_state THEN display_combined_image(w2)
            ELSE IF Len(w2.win.image_files_in_folder) > 0
            THEN display_single_image(w2,
                     w2.win.image_files_in_folder[w2.win.current_image_index + 1])
            ELSE set_image(w2, NoPath))

\* update_mask_coord_label([]) hands the window a new empty list
reset_mask_points(w) == update_mask_coord_label(reset_mask(w), << >>, FALSE)

(* save_coordinates_to_json *)

\* a validation that looks at the frames alone
SaveValidationFramesOnly(wn) ==
    IF wn.image_path_frame1 = NoPath \/ wn.image_path_frame2 = NoPath
    THEN "select_both_frames"
    ELSE NoMessage

\* the message of the first validation that fails, NoMessage when none does
SaveValidation(wn) ==
    IF wn.image_path_frame1 = NoPath \/ wn.image_path_frame2 = NoPath
    THEN "select_both_frames"
    ELSE IF Len(wn.mask_points_on_combined) /= MaskSize
    THEN "select_exactly_4_mask_points"
    ELSE IF Len(wn.source_points_on_frame1) = 0 \/ Len(wn.target_points_on_frame2) = 0
    THEN "select_source_and_target_points"
    ELSE IF Len(wn.source_points_on_frame1) /= Len(wn.target_points_on_frame2)
    THEN "source_and_target_counts_must_be_equal"
    ELSE NoMessage

\* a dict with the two point lists under each other's key
SaveDataSwapped(wn) ==
    << <<"frame1_image", JStr(basename(wn.image_path_frame1))>>,
       <<"frame2_image", JStr(basename(wn.image_path_frame2))>>,
       <<"mask_area", JPts(wn.mask_points_on_combined)>>,
       <<"source_points", JPts(wn.target_points_on_frame2)>>,
       <<"target_points", JPts(wn.source_points_on_frame1)>> >>

\* the dict that is dumped
SaveData(wn) ==
    << <<"frame1_image", JStr(basename(wn.image_path_frame1))>>,
       <<"frame2_image", JStr(basename(wn.image_path_frame2))>>,
       <<"mask_area", JPts(wn.mask_points_on_combined)>>,
       <<"source_points", JPts(wn.source_points_on_frame1)>>,
       <<"target_points", JPts(wn.target_points_on_frame2)>> >>

OutputPathPlain(wn) ==
    dirname(wn.image_path_frame1) \o
        << <<"drag_data_">> \o splitext0(basename(wn.image_path_frame1)) \o <<"_to_">>
               \o splitext0(basename(wn.image_path_frame2)) \o <<".json">> >>

OutputPathVersioned(wn) ==
    dirname(wn.image_path_frame1) \o
        << <<"drag_data_">> \o splitext0(basename(wn.image_path_frame1)) \o <<"_to_">>
               \o splitext0(basename(wn.image_path_frame2))
               \o (IF OutputPathPlain(wn) \in DOMAIN files THEN <<"_2">> ELSE << >>)
               \o <<".json">> >>

\* lines 1071-1076
OutputPath(wn) == OutputPathPlain(wn)

\* the file system after content is written to path
WriteFile(fs, path, content) ==
    [q \in (DOMAIN fs) \cup {path} |-> IF q = path THEN content ELSE fs[q]]

-----------------------------------------------------------------------------
(* The annotator's state machine *)

InitWin ==
    [current_selected_folder |-> NoPath,
     image_files_in_folder |-> << >>,
     current_image_index |-> 0,
     image_path_frame1 |-> NoPath,
     image_path_frame2 |-> NoPath,
     mask_points_on_combined |-> << >>,
     mask_shared |-> FALSE,
     source_points_on_frame1 |-> << >>,
     target_points_on_frame2 |-> << >>,
     current_display_mode |-> "single_image",
     current_point_selection_target |-> "",
     folder_list |-> << >>,
     thumbnail_grid |-> {},
     visible |-> "single",
     prev_image_button |-> FALSE,
     next_image_button |-> FALSE,
     select_frame1_button |-> FALSE,
     select_frame2_button |-> FALSE,
     toggle_source_points_button |-> FALSE,
     toggle_target_points_button |-> FALSE,
     toggle_mask_mode_button |-> FALSE,
     reset_mask_button |-> FALSE,
     save_button |-> FALSE]

InitSingle ==
    [_original_pixmap |-> NullPixmap,
     _drawn_pixmap_rect |-> NullRect,
     current_points |-> << >>,
     dragging_point_index |-> -1,
     point_mode_enabled |-> FALSE]

InitCombined ==
    [combined_pixmap |-> NullPixmap,
     _drawn_pixmap_rect |-> NullRect,
     mask_points |-> << >>,
     dragging_point_index |-> -1,
     mask_mode_enabled |-> FALSE]

NoProbe == [stage |-> "idle"]

InitAnnotator ==
    /\ win = InitWin
    /\ single = InitSingle
    /\ combined = InitCombined
    /\ labelSize = InitialLabelSize
    /\ leftHeld = FALSE
    /\ files = << >>
    /\ lastMessage = NoMessage
    /\ lastEmit = NoEmit
    /\ nSaves = 0
    /\ crashed = FALSE

\* the record the methods work on, at the start of a handler
World == [win |-> win, single |-> single, combined |-> combined,
          label_size |-> labelSize,
          msg |-> NoMessage, emit |-> NoEmit, raised |-> FALSE]

\* event.buttons() of a mouse move
Held == IF leftHeld THEN {"left"} ELSE {}

\* the application runs: no handler has raised, and the run has files left to
\* write
Running == ~crashed /\ nSaves < limits.saves

\* the state a handler leaves; a label that is hidden loses the mouse
Apply(w, left) ==
    /\ win' = w.win
    /\ single' = w.single
    /\ combined' = w.combined
    /\ labelSize' = w.label_size
    /\ lastMessage' = w.msg
    /\ lastEmit' = w.emit
    /\ crashed' = w.raised
    /\ leftHeld' = (left /\ w.win.visible = win.visible)

otherVars == <<limits, probe, tree, reqs>>

SelectDirectory ==
    /\ Running
    /\ \E directory \in Directories : Apply(select_directory(World, directory), leftHeld)
    /\ UNCHANGED <<files, nSaves, otherVars>>

SelectFolder ==
    /\ Running
    /\ \E i \in 1..Len(win.folder_list) :
           /\ win.folder_list[i] \in limits.folders
           /\ Apply(select_folder(World, win.folder_list[i]), leftHeld)
    /\ UNCHANGED <<files, nSaves, otherVars>>

ThumbnailClicked ==
    /\ Running
    /\ \E index \in win.thumbnail_grid : Apply(_thumbnail_clicked(World, index), leftHeld)
    /\ UNCHANGED <<files, nSaves, otherVars>>

ShowPreviousImage ==
    /\ Running
    /\ win.prev_image_button
    /\ Apply(show_previous_image(World), leftHeld)
    /\ UNCHANGED <<files, nSaves, otherVars>>

ShowNextImage ==
    /\ Running
    /\ win.next_image_button
    /\ Apply(show_next_image(World), leftHeld)
    /\ UNCHANGED <<files, nSaves, otherVars>>

SetFrame1Image ==
    /\ Running
    /\ win.select_frame1_button
    /\ Apply(set_frame1_image(World), leftHeld)
    /\ UNCHANGED <<files, nSaves, otherVars>>

SetFrame2Image ==
    /\ Running
    /\ win.select_frame2_button
    /\ Apply(set_frame2_image(World), leftHeld)
    /\ UNCHANGED <<files, nSaves, otherVars>>

ToggleSourcePoints ==
    /\ Running
    /\ win.toggle_source_points_button
    /\ Apply(toggle_point_selection_mode(World, "frame1_points"), leftHeld)
    /\ UNCHANGED <<files, nSaves, otherVars>>

ToggleTargetPoints ==
    /\ Running
    /\ win.toggle_target_points_button
    /\ Apply(toggle_point_selection_mode(World, "frame2_points"), leftHeld)
    /\ UNCHANGED <<files, nSaves, otherVars>>

ToggleMaskMode ==
    /\ Running
    /\ win.toggle_mask_mode_button
    /\ Apply(toggle_mask_mode(World), leftHeld)
    /\ UNCHANGED <<files, nSaves, otherVars>>

ResetMaskPoints ==
    /\ Running
    /\ win.reset_mask_button
    /\ Apply(reset_mask_points(World), leftHeld)
    /\ UNCHANGED <<files, nSaves, otherVars>>

\* The mouse events reach the image label that is shown.  The left button is
\* pressed when it is up and released when it is down; the right button is
\* not tracked, its press and its release are events of their own.
SingleMousePress ==
    /\ Running
    /\ win.visible = "single"
    /\ \E pos \in limits.positions, button \in {"left", "right"} :
           LET w == single_mousePressEvent(World, pos, button)
           IN  /\ button = "left" => ~leftHeld
               /\ Len(w.single.current_points) <= limits.points
               /\ Apply(w, leftHeld \/ button = "left")
    /\ UNCHANGED <<files, nSaves, otherVars>>

SingleMouseMove ==
    /\ Running
    /\ win.visible = "single"
    /\ \E pos \in limits.positions : Apply(single_mouseMoveEvent(World, pos, Held), leftHeld)
    /\ UNCHANGED <<files, nSaves, otherVars>>

SingleMouseRelease ==
    /\ Running
    /\ win.visible = "single"
    /\ \E button \in {"left", "right"} :
           /\ button = "left" => leftHeld
           /\ Apply(single_mouseReleaseEvent(World), leftHeld /\ button /= "left")
    /\ UNCHANGED <<files, nSaves, otherVars>>

CombinedMousePress ==
    /\ Running
    /\ win.visible = "combined"
    /\ \E pos \in limits.mask_positions, button \in {"left", "right"} :
           /\ button = "left" => ~leftHeld
           /\ Apply(combined_mousePressEvent(World, pos, button),
                    leftHeld \/ button = "left")
    /\ UNCHANGED <<files, nSaves, otherVars>>

CombinedMouseMove ==
    /\ Running
    /\ win.visible = "combined"
    /\ \E pos \in limits.mask_positions : Apply(combined_mouseMoveEvent(World, pos, Held), leftHeld)
    /\ UNCHANGED <<files, nSaves, otherVars>>

CombinedMouseRelease ==
    /\ Running
    /\ win.visible = "combined"
    /\ \E button \in {"left", "right"} :
           /\ button = "left" => leftHeld
           /\ Apply(combined_mouseReleaseEvent(World), leftHeld /\ button /= "left")
    /\ UNCHANGED <<files, nSaves, otherVars>>

\* a click on the point label: a button is pressed and released in one place,
\* with no other event in between
SingleMouseClick ==
    /\ Running
    /\ win.visible = "single"
    /\ ~leftHeld
    /\ \E pos \in limits.positions, button \in {"left", "right"} :
           LET w == single_mouseReleaseEvent(single_mousePressEvent(World, pos, button))
           IN  /\ Len(w.single.current_points) <= limits.points
               /\ Apply(w, FALSE)
    /\ UNCHANGED <<files, nSaves, otherVars>>

\* a click on the mask label
CombinedMouseClick ==
    /\ Running
    /\ win.visible = "combined"
    /\ ~leftHeld
    /\ \E pos \in limits.mask_positions, button \in {"left", "right"} :
           Apply(combined_mouseReleaseEvent(combined_mousePressEvent(World, pos, button)),
                 FALSE)
    /\ UNCHANGED <<files, nSaves, otherVars>>

\* The image area is resized.  Both labels lie in it: the label that is shown
\* gets its resizeEvent at once, the hidden one when it is shown again, before
\* any other event reaches it.
ResizeLabels ==
    /\ Running
    /\ \E size \in LabelSizes \ {labelSize} :
           Apply(combined_resizeEvent(single_resizeEvent(World, size), size), leftHeld)
    /\ UNCHANGED <<files, nSaves, otherVars>>

\* The slot validates its preconditions itself, so it is callable in every
\* state.  Either the whole text is written, or open(output_path, 'w') fails
\* and the file is left as it was.
\* a save that starts the next annotation: what was written is cleared
SaveCoordinatesClearing ==
    /\ Running
    /\ LET message == SaveValidation(win)
           text == Dumps(SaveData(win))
           path == OutputPath(win)
       IN  IF message /= NoMessage
           THEN /\ Apply([World EXCEPT !.msg = message], leftHeld)
                /\ UNCHANGED <<files, nSaves>>
           ELSE /\ \/ /\ files' = WriteFile(files, path, text)
                      /\ nSaves' = nSaves + 1
                      /\ Apply([World EXCEPT !.msg = "saved",
                                             !.win.source_points_on_frame1 = << >>,
                                             !.win.target_points_on_frame2 = << >>],
                               leftHeld)
                \/ /\ UNCHANGED <<files, nSaves>>
                      /\ Apply([World EXCEPT !.msg = "save_error"], leftHeld)
    /\ UNCHANGED otherVars

SaveCoordinatesToJson ==
    /\ Running
    /\ LET message == SaveValidation(win)
           text == Dumps(SaveData(win))
           path == OutputPath(win)
       IN  IF message /= NoMessage
           THEN /\ Apply([World EXCEPT !.msg = message], leftHeld)
                /\ UNCHANGED <<files, nSaves>>
           ELSE /\ \/ /\ files' = WriteFile(files, path, text)
                      /\ nSaves' = nSaves + 1
                      /\ Apply([World EXCEPT !.msg = "saved"], leftHeld)
                \/ /\ UNCHANGED <<files, nSaves>>
                      /\ Apply([World EXCEPT !.msg = "save_error"], leftHeld)
    /\ UNCHANGED otherVars

Next ==
    \/ SelectDirectory
    \/ SelectFolder
    \/ ThumbnailClicked
    \/ ShowPreviousImage
    \/ ShowNextImage
    \/ SetFrame1Image
    \/ SetFrame2Image
    \/ ToggleSourcePoints
    \/ ToggleTargetPoints
    \/ ToggleMaskMode
    \/ ResetMaskPoints
    \/ SingleMousePress
    \/ SingleMouseMove
    \/ SingleMouseRelease
    \/ CombinedMousePress
    \/ CombinedMouseMove
    \/ CombinedMouseRelease
    \/ ResizeLabels
    \/ SaveCoordinatesToJson

Init ==
    /\ InitAnnotator
    /\ limits = [points |-> MaxPoints, saves |-> MaxSaves,
                 positions |-> Positions, mask_positions |-> Positions,
                 folders |-> {Folder1}]
    /\ probe = NoProbe
    /\ tree = << >>
    /\ reqs = << >>

Spec == Init /\ [][Next]_vars

-----------------------------------------------------------------------------
(* Annotating and saving.  The window as it is used to annotate a pair and   *)
(* save it: frames are browsed to and chosen, points and mask corners are    *)
(* clicked (no drags, no resize, no reset), and the file is written.         *)

\* SpecSave: one save; the clicks fall on two places of the image that map to
\* different points, and a list holds up to two of them
SaveMaxPoints == 2

SaveMaxSaves == 1

SavePositions == {<<12, 12>>, <<29, 29>>}

SaveMaskPositions == {<<29, 29>>}

InitSave ==
    /\ InitAnnotator
    /\ limits = [points |-> SaveMaxPoints, saves |-> SaveMaxSaves,
                 positions |-> SavePositions, mask_positions |-> SaveMaskPositions,
                 folders |-> {Folder1}]
    /\ probe = NoProbe
    /\ tree = << >>
    /\ reqs = << >>

NextSave ==
    \/ SelectDirectory
    \/ SelectFolder
    \/ ShowNextImage
    \/ SetFrame1Image
    \/ SetFrame2Image
    \/ ToggleSourcePoints
    \/ ToggleTargetPoints
    \/ ToggleMaskMode
    \/ SingleMouseClick
    \/ CombinedMouseClick
    \/ SaveCoordinatesToJson

SpecSave == InitSave /\ [][NextSave]_vars

\* SpecResave: two saves; the clicks fall on one place of the image
ResaveMaxPoints == 2

ResaveMaxSaves == 2

ResavePositions == {<<29, 29>>}

InitResave ==
    /\ InitAnnotator
    /\ limits = [points |-> ResaveMaxPoints, saves |-> ResaveMaxSaves,
                 positions |-> ResavePositions, mask_positions |-> ResavePositions,
                 folders |-> {Folder1}]
    /\ probe = NoProbe
    /\ tree = << >>
    /\ reqs = << >>

SpecResave == InitResave /\ [][NextSave]_vars

-----------------------------------------------------------------------------
(* Two folders.  Both folders of the data root that hold more than one       *)
(* image are clicked, in any order and at any time.                          *)

\* SpecFolders: one save; a list holds one point, the clicks fall on one
\* place of the image
FoldersMaxPoints == 1

FoldersMaxSaves == 1

FoldersPositions == {<<29, 29>>}

InitFolders ==
    /\ InitAnnotator
    /\ limits = [points |-> FoldersMaxPoints, saves |-> FoldersMaxSaves,
                 positions |-> FoldersPositions, mask_positions |-> FoldersPositions,
                 folders |-> {Folder1, Folder2}]
    /\ probe = NoProbe
    /\ tree = << >>
    /\ reqs = << >>

NextFolders ==
    \/ SelectDirectory
    \/ SelectFolder
    \/ SetFrame1Image
    \/ SetFrame2Image
    \/ ToggleSourcePoints
    \/ ToggleTargetPoints
    \/ ToggleMaskMode
    \/ SingleMouseClick
    \/ CombinedMouseClick
    \/ SaveCoordinatesToJson

SpecFolders == InitFolders /\ [][NextFolders]_vars

-----------------------------------------------------------------------------
(* The point session.  A frame is chosen, point selection is switched on and *)
(* off, and the mouse is pressed, moved and released over the image.         *)

\* SpecPoints: a list holds up to three points.  On image a (4x3, drawn in
\* the 40x30 label) the positions map to the original points (0,0), (0,1),
\* (1,1), (1,1), (2,2) in this order; the fourth lies within the hit radius
\* of the points (1,1) and (2,2) at once, the first within that of the point
\* (0,1), the last lies outside the image
PointsMaxPoints == 3

PointsPositions ==
    {<<1, 1>>, <<5, 12>>, <<12, 12>>, <<16, 16>>, <<29, 29>>, <<100, 100>>}

InitPoints ==
    /\ InitAnnotator
    /\ limits = [points |-> PointsMaxPoints, saves |-> MaxSaves,
                 positions |-> PointsPositions, mask_positions |-> {},
                 folders |-> {Folder1}]
    /\ probe = NoProbe
    /\ tree = << >>
    /\ reqs = << >>

NextPoints ==
    \/ SelectDirectory
    \/ SelectFolder
    \/ SetFrame1Image
    \/ ToggleSourcePoints
    \/ SingleMousePress
    \/ SingleMouseMove
    \/ SingleMouseRelease

SpecPoints == InitPoints /\ [][NextPoints]_vars

-----------------------------------------------------------------------------
(* The coordinate mapping of an image label on its own.  A label of either   *)
(* class is given an image and a size, lays the image out (update_display),  *)
(* maps a display point to the original image and maps the result back.      *)

\* bounds of the mapping's inputs
MapMaxPix == 3

MapView == 6

MapMaxCoord == 23

\* the pixmap sizes: none, the small ones, and one larger than its label
MapPixmaps ==
    {NullPixmap} \cup ((1..MapMaxPix) \X (1..MapMaxPix)) \cup {<<30, 20>>}

\* the label size that goes with a pixmap
MapLabelSize(pix) == IF pix = <<30, 20>> THEN <<22, 22>> ELSE <<MapView, MapView>>

MapPoints == (0..MapMaxCoord) \X (0..MapMaxCoord)

\* the label of the probe, as far as the mapping reads it
ProbeLabel ==
    [_original_pixmap |-> probe.pix, combined_pixmap |-> probe.pix,
     _drawn_pixmap_rect |-> probe.rect]

InitMap ==
    /\ InitAnnotator
    /\ limits = [points |-> MaxPoints, saves |-> MaxSaves,
                 positions |-> Positions, mask_positions |-> Positions,
                 folders |-> {Folder1}]
    /\ tree = << >>
    /\ reqs = << >>
    /\ \E class \in {"single", "combined"}, pix \in MapPixmaps, point \in MapPoints :
           probe = [stage |-> "loaded", class |-> class, pix |-> pix,
                    size |-> MapLabelSize(pix), rect |-> NullRect, point |-> point,
                    original |-> NoneP, display |-> NoneP]

annotatorVars == <<win, single, combined, labelSize, leftHeld, files, lastMessage,
                   lastEmit, nSaves, crashed, limits>>

\* update_display of the label
MapUpdateDisplay ==
    /\ probe.stage = "loaded"
    /\ probe' = [probe EXCEPT !.stage = "drawn",
                              !.rect = DrawnRect(probe.pix, probe.size)]
    /\ UNCHANGED <<annotatorVars, tree, reqs>>

\* get_original_point_from_display(point)
MapGetOriginal ==
    /\ probe.stage = "drawn"
    /\ probe' = [probe EXCEPT
                     !.stage = "mapped",
                     !.original =
                         IF probe.class = "single"
                         THEN single_get_original_point_from_display(ProbeLabel, probe.point)
                         ELSE combined_get_original_point_from_display(ProbeLabel, probe.point)]
    /\ UNCHANGED <<annotatorVars, tree, reqs>>

\* get_display_point_from_original of the point that was returned
MapGetDisplay ==
    /\ probe.stage = "mapped"
    /\ probe.original /= NoneP
    /\ probe' = [probe EXCEPT
                     !.stage = "back",
                     !.display =
                         IF probe.class = "single"
                         THEN single_get_display_point_from_original(ProbeLabel, probe.original)
                         ELSE combined_get_display_point_from_original(ProbeLabel, probe.original)]
    /\ UNCHANGED <<annotatorVars, tree, reqs>>

NextMap ==
    \/ MapUpdateDisplay
    \/ MapGetOriginal
    \/ MapGetDisplay

SpecMap == InitMap /\ [][NextMap]_vars

-----------------------------------------------------------------------------
(* The viewer's update_caption (src/app.py).  The development server that    *)
(* app.run starts handles each request in a thread of its own, so the steps  *)
(* of two requests interleave.  A request path is a sequence of components   *)
(* relative to the working directory; a component is a name or "..".         *)

\* bound: the requests of a run
MaxRequests == 2

Up == <<"..">>

\* os.path.normpath of an absolute path: ".." leaves the directory before it
RECURSIVE normpath(_, _)
normpath(done, rest) ==
    IF rest = << >> THEN done
    ELSE IF rest[1] = Up
    THEN normpath(IF done = << >> THEN done ELSE SubSeq(done, 1, Len(done) - 1), Tail(rest))
    ELSE normpath(Append(done, rest[1]), Tail(rest))

\* os.path.abspath of a path relative to the working directory
abspath(path) == normpath(<< >>, WorkDir \o path)

RECURSIVE PathText(_)
\* the text of an absolute path: "/" and the pieces of each name
PathText(path) ==
    IF path = << >> THEN << >>
    ELSE <<"/">> \o path[1] \o PathText(Tail(path))

\* str.startswith
startswith(text, prefix) ==
    Len(prefix) <= Len(text) /\ SubSeq(text, 1, Len(prefix)) = prefix

\* line 159: the path check of update_caption
PathAllowed(json_file_path) ==
    startswith(PathText(abspath(json_file_path)), PathText(abspath(BASE_DIR)))

\* the record the JSON files hold at the start
ViewerRecord ==
    << <<"frame1_image", JStr(<<"a", ".png">>)>>,
       <<"frame2_image", JStr(<<"b", ".PNG">>)>>,
       <<"mask_area", JPts(<< <<2, 2>>, <<2, 2>>, <<2, 2>>, <<2, 2>> >>)>>,
       <<"source_points", JPts(<< <<2, 2>> >>)>>,
       <<"target_points", JPts(<< <<2, 2>> >>)>> >>

\* the paths of the requests: a record below the data root, one in a
\* directory next to it whose name starts with the root's name, one in
\* another directory, the latter by way of the data root, and a file that
\* does not exist
InsidePath == BASE_DIR \o << <<"f1">>, <<"r", ".json">> >>

SiblingPath == << <<"data", "2">>, <<"r", ".json">> >>

OtherPath == << <<"other">>, <<"r", ".json">> >>

TraversalPath == BASE_DIR \o << Up, <<"other">>, <<"r", ".json">> >>

MissingPath == BASE_DIR \o << <<"f1">>, <<"none", ".json">> >>

RequestPaths == {NoPath, InsidePath, SiblingPath, OtherPath, TraversalPath, MissingPath}

\* Python's None where a caption is expected
NoCaption == <<"None">>

\* no caption, the empty string, and two captions of different length
RequestCaptions == {NoCaption, << >>, <<"x">>, <<"y", "z">>}

InitTree ==
    [path \in {abspath(InsidePath), abspath(SiblingPath), abspath(OtherPath)} |->
         Dumps(ViewerRecord)]

\* the filler of a file that truncate() has made longer
NulTok == Tok("nul", "")

\* f.write(text) at position 0 of a file
WriteAtStart(content, text) ==
    text \o SubSeq(content, Len(text) + 1, Len(content))

\* f.truncate() at position n
TruncateAt(content, n) ==
    IF n <= Len(content) THEN SubSeq(content, 1, n)
    ELSE content \o [i \in 1..(n - Len(content)) |-> NulTok]

\* The JSON files of the folder data/f2, by name.  c holds a captioned
\* record whose second frame name has a backslash, e a record with an empty
\* caption, k an object without frame2_image, m a text that breaks off,
\* n the text null, t a record whose frame1_image is null, b a byte that is
\* not UTF-8, and u a record in a file that may not be read.
ExtraFile(name) == DataRoot \o << <<"f2">>, <<name, ".json">> >>

ExtraContent(name) ==
    CASE name = "c" ->
             Dumps(SetKey(SetKey(ViewerRecord, "frame2_image",
                                 JStr(<<"s", "\\", "b", ".PNG">>)),
                          "caption", JStr(<<"x">>)))
      [] name = "e" -> Dumps(SetKey(ViewerRecord, "caption", JStr(<< >>)))
      [] name = "k" -> Dumps(<< <<"frame1_image", JStr(<<"a", ".png">>)>> >>)
      [] name = "m" -> SubSeq(Dumps(ViewerRecord), 1, 4)
      [] name = "n" -> <<Tok("punct", "null")>>
      [] name = "t" -> Dumps(SetKey(ViewerRecord, "frame1_image", JNull))
      [] name = "b" -> <<Tok("byte", "ff")>>
      [] name = "u" -> Dumps(ViewerRecord)

\* open(path) raises PermissionError
Unreadable(path) == path = ExtraFile("u")

\* the data trees of the runs: the files of InitTree, the files c, e, k and
\* m, and at most one of the files n, t, b and u
InitTrees ==
    {[path \in DOMAIN InitTree \cup {ExtraFile(name) : name \in {"c", "e", "k", "m"} \cup more} |->
          IF path \in DOMAIN InitTree THEN InitTree[path]
          ELSE ExtraContent(CHOOSE name \in {"c", "e", "k", "m", "n", "t", "b", "u"} :
                                ExtraFile(name) = path)] :
         more \in {{}, {"n"}, {"t"}, {"b"}, {"u"}}}

\* os.path.relpath(path, start) of two absolute paths
relpath(path, start) ==
    LET shorter == Min(Len(path), Len(start))
        common == CHOOSE n \in 0..shorter :
                      /\ SubSeq(path, 1, n) = SubSeq(start, 1, n)
                      /\ n < shorter => path[n + 1] /= start[n + 1]
    IN  [i \in 1..(Len(start) - common) |-> Up] \o SubSeq(path, common + 1, Len(path))

\* lines 19-43.  Of every .json file that os.walk finds under the data root
\* the function keeps the object that has both frame keys, with its frame
\* fields made relative to the data root and the two fields added; the
\* except clause skips a JSONDecodeError (and a FileNotFoundError), any other
\* exception ends the call.  The buckets are given as sets: the order of
\* os.walk is the file system's.
find_files(t) ==
    LET walked == {f \in DOMAIN t :
                       /\ Len(f) > Len(DataRoot)
                       /\ SubSeq(f, 1, Len(DataRoot)) = DataRoot
                       /\ f[Len(f)][Len(f[Len(f)])] = ".json"}
        data(f) == Loads(t[f])
        has_frames(f) == /\ HasKey(data(f).obj, "frame1_image")
                         /\ HasKey(data(f).obj, "frame2_image")
        raises(f) ==
            \/ Unreadable(f)
            \/ ~data(f).ok /\ data(f).error /= "JSONDecodeError"
            \/ data(f).ok /\ data(f).none
            \/ /\ data(f).ok
               /\ has_frames(f)
               /\ \/ Get(data(f).obj, "frame1_image").t /= "str"
                  \/ Get(data(f).obj, "frame2_image").t /= "str"
        kept == {f \in walked : data(f).ok /\ has_frames(f)}
        text(path) == Tail(PathText(path))
        slashes(pieces) == [i \in 1..Len(pieces) |-> IF pieces[i] = "\\" THEN "/" ELSE pieces[i]]
        frame(f, key) ==
            JStr(slashes(text(relpath(
                normpath(<< >>, Append(dirname(f), Get(data(f).obj, key).s)), DataRoot))))
        record(f) ==
            SetKey(SetKey(SetKey(SetKey(data(f).obj,
                "frame1_image", frame(f, "frame1_image")),
                "frame2_image", frame(f, "frame2_image")),
                "json_file_path", JStr(text(relpath(f, WorkDir)))),
                "directory_name", JStr(basename(dirname(f))))
        captioned(f) ==
            /\ HasKey(data(f).obj, "caption")
            /\ LET caption == Get(data(f).obj, "caption")
               IN  Len(caption.s) > 0 \/ Len(caption.p) > 0
    IN  IF \E f \in walked : raises(f)
        THEN [raised |-> TRUE, without |-> {}, with |-> {}]
        ELSE [raised |-> FALSE,
              without |-> {record(f) : f \in {g \in kept : ~captioned(g)}},
              with |-> {record(f) : f \in {g \in kept : captioned(g)}}]

InitViewer ==
    /\ InitAnnotator
    /\ limits = [points |-> MaxPoints, saves |-> MaxSaves,
                 positions |-> Positions, mask_positions |-> Positions,
                 folders |-> {Folder1}]
    /\ probe = NoProbe
    /\ tree \in InitTrees
    /\ reqs = << >>

\* lines 119-147: a page is requested; each of the three pages calls
\* find_files, and an exception it raises is answered with 500
FindFilesRequest ==
    /\ Len(reqs) < MaxRequests
    /\ LET found == find_files(tree)
       IN  reqs' = Append(reqs,
               [kind |-> "page", json_file_path |-> NoPath, caption |-> NoCaption,
                status |-> IF found.raised THEN 500 ELSE 200, pc |-> "done",
                file_data |-> << >>, found |-> found])
    /\ UNCHANGED <<tree, probe, annotatorVars>>

\* lines 151-160: a request arrives; it is answered at once with 400 or 403,
\* or goes on to open the file
UpdateCaptionRequest ==
    /\ Len(reqs) < MaxRequests
    /\ \E json_file_path \in RequestPaths, caption \in RequestCaptions :
           LET status == IF json_file_path = NoPath \/ caption = NoCaption THEN 400
                         ELSE IF ~PathAllowed(json_file_path) THEN 403
                         ELSE 0
           IN  reqs' = Append(reqs,
                   [kind |-> "update_caption",
                    json_file_path |-> json_file_path, caption |-> caption,
                    status |-> status, pc |-> IF status = 0 THEN "open" ELSE "done",
                    file_data |-> << >>,
                    found |-> [raised |-> FALSE, without |-> {}, with |-> {}]])
    /\ UNCHANGED <<tree, probe, annotatorVars>>

\* lines 162-164: open(json_file_path, 'r+') and json.load; an exception is
\* answered with 500
UpdateCaptionOpenLoad(i) ==
    /\ reqs[i].pc = "open"
    /\ LET file == abspath(reqs[i].json_file_path)
           loaded == IF file \in DOMAIN tree THEN Loads(tree[file]) ELSE LoadError
       IN  reqs' = [reqs EXCEPT ![i] =
                        IF loaded.ok /\ ~loaded.none
                        THEN [@ EXCEPT !.pc = "seek",
                                       !.file_data = SetKey(loaded.obj, "caption",
                                                            JStr(reqs[i].caption))]
                        ELSE [@ EXCEPT !.pc = "done", !.status = 500]]
    /\ UNCHANGED <<tree, probe, annotatorVars>>

\* line 165: f.seek(0)
UpdateCaptionSeek(i) ==
    /\ reqs[i].pc = "seek"
    /\ reqs' = [reqs EXCEPT ![i].pc = "dump"]
    /\ UNCHANGED <<tree, probe, annotatorVars>>

\* line 166: json.dump(file_data, f, ...), written over the start of the file
UpdateCaptionDump(i) ==
    /\ reqs[i].pc = "dump"
    /\ LET file == abspath(reqs[i].json_file_path)
       IN  tree' = [tree EXCEPT ![file] = WriteAtStart(@, Dumps(reqs[i].file_data))]
    /\ reqs' = [reqs EXCEPT ![i].pc = "truncate"]
    /\ UNCHANGED <<probe, annotatorVars>>

\* lines 167-168: f.truncate() at the end of what was written, and the answer
UpdateCaptionTruncate(i) ==
    /\ reqs[i].pc = "truncate"
    /\ LET file == abspath(reqs[i].json_file_path)
       IN  tree' = [tree EXCEPT ![file] = TruncateAt(@, Len(Dumps(reqs[i].file_data)))]
    /\ reqs' = [reqs EXCEPT ![i].pc = "done", ![i].status = 200]
    /\ UNCHANGED <<probe, annotatorVars>>

NextViewer ==
    \/ UpdateCaptionRequest
    \/ FindFilesRequest
    \/ \E i \in 1..Len(reqs) : UpdateCaptionOpenLoad(i)
    \/ \E i \in 1..Len(reqs) : UpdateCaptionSeek(i)
    \/ \E i \in 1..Len(reqs) : UpdateCaptionDump(i)
    \/ \E i \in 1..Len(reqs) : UpdateCaptionTruncate(i)

SpecViewer == InitViewer /\ [][NextViewer]_vars

-----------------------------------------------------------------------------
(* The viewer's describe_images requests.  A request names two images below *)
(* static/data; the captioning model describes an image it is given, or     *)
(* raises.                                                                   *)

\* SpecDescribe: up to three requests
DescribeMaxRequests == 3

STATIC_DATA_DIR == << <<"static">>, <<"data">> >>

\* the files below static/data: an image, and a file that is none
StaticImage == WorkDir \o STATIC_DATA_DIR \o << <<"f1">>, <<"a", ".png">> >>

StaticText == WorkDir \o STATIC_DATA_DIR \o << <<"f1">>, <<"notes", ".txt">> >>

\* Image.open(path).convert('RGB') returns an image
OpensAsImage(path) == path = StaticImage

\* what request.get_json() returns: a dict, given as its pairs in a record, or
\* another JSON value; a body that is no JSON makes get_json raise
JsonDict(pairs) == [json |-> TRUE, dict |-> TRUE, pairs |-> pairs]

JsonOther == [json |-> TRUE, dict |-> FALSE, pairs |-> << >>]

NotJson == [json |-> FALSE, dict |-> FALSE, pairs |-> << >>]

\* the bodies of the requests: two images; an image and a file that is no
\* image; an image and a file that does not exist; one path left out; no
\* path; the JSON value null; a body that is no JSON
DescribeBodies ==
    {JsonDict(<< <<"image1_path", << <<"f1">>, <<"a", ".png">> >> >>,
                 <<"image2_path", << <<"f1">>, <<"a", ".png">> >> >> >>),
     JsonDict(<< <<"image1_path", << <<"f1">>, <<"a", ".png">> >> >>,
                 <<"image2_path", << <<"f1">>, <<"notes", ".txt">> >> >> >>),
     JsonDict(<< <<"image1_path", << <<"f1">>, <<"z", ".png">> >> >>,
                 <<"image2_path", << <<"f1">>, <<"a", ".png">> >> >> >>),
     JsonDict(<< <<"image1_path", << <<"f1">>, <<"a", ".png">> >> >> >>),
     JsonDict(<< >>),
     JsonOther,
     NotJson}

\* data.get(key): None (here NoPath) when the key is missing
DictGet(pairs, key) == IF HasKey(pairs, key) THEN Get(pairs, key) ELSE NoPath

\* a response that is not made by jsonify: the error page of the server
ErrorPage(status) == [status |-> status, json |-> FALSE, body |-> << >>]

\* jsonify(...) with a status
Jsonify(pairs, status) == [status |-> status, json |-> TRUE, body |-> pairs]

\* describe_images: the response to a request with this body; model_raises
\* tells whether processor / model.generate raises on this request
describe_images(body, model_raises) ==
    IF ~body.json THEN ErrorPage(400)
    ELSE IF ~body.dict THEN ErrorPage(500)
    ELSE LET image1_path == DictGet(body.pairs, "image1_path")
             image2_path == DictGet(body.pairs, "image2_path")
         IN  IF image1_path = NoPath \/ image2_path = NoPath THEN ErrorPage(500)
             ELSE IF \/ ~OpensAsImage(WorkDir \o STATIC_DATA_DIR \o image1_path)
                     \/ ~OpensAsImage(WorkDir \o STATIC_DATA_DIR \o image2_path)
                     \/ model_raises
             THEN Jsonify(<< <<"success", FALSE>>, <<"message", "str(e)">> >>, 500)
             ELSE Jsonify(<< <<"success", TRUE>>,
                             <<"description1", "description of image 1">>,
                             <<"description2", "description of image 2">>,
                             <<"combined_description", "both descriptions">> >>, 200)

InitDescribe ==
    /\ InitAnnotator
    /\ limits = [points |-> MaxPoints, saves |-> MaxSaves,
                 positions |-> Positions, mask_positions |-> Positions,
                 folders |-> {Folder1}]
    /\ probe = NoProbe
    /\ tree = << >>
    /\ reqs = << >>

\* a request is handled from its arrival to its response
DescribeImagesRequest ==
    /\ Len(reqs) < DescribeMaxRequests
    /\ \E body \in DescribeBodies, model_raises \in BOOLEAN :
           reqs' = Append(reqs,
               [kind |-> "describe_images", body |-> body,
                model_raises |-> model_raises,
                response |-> describe_images(body, model_raises)])
    /\ UNCHANGED <<tree, probe, annotatorVars>>

NextDescribe == DescribeImagesRequest

SpecDescribe == InitDescribe /\ [][NextDescribe]_vars

-----------------------------------------------------------------------------
(* Properties of the annotator *)

\* isSaveReady, from the stored annotation alone
StoreReady ==
    /\ win.image_path_frame1 /= NoPath
    /\ win.image_path_frame2 /= NoPath
    /\ Len(win.mask_points_on_combined) = 4
    /\ Len(win.source_points_on_frame1) >= 1
    /\ Len(win.source_points_on_frame1) = Len(win.target_points_on_frame2)

\* C1: after every operation of the window the save button is enabled if and
\* only if both frames are chosen, the stored mask has exactly 4 points, the
\* stored source list is not empty and the stored source and target lists
\* have the same length.
C1_SaveButtonIffReady == win.save_button <=> StoreReady

\* the button is enabled, with a full annotation in the store
C1_Witness ==
    /\ win.save_button
    /\ StoreReady
    /\ Len(win.mask_points_on_combined) = 4
    /\ Len(win.source_points_on_frame1) = 1

\* the records of the files on disk
RecordOf(path) == Loads(files[path])

PointsOf(r, key) == Get(r.obj, key).p

\* the path a save of the chosen frames has to write to
ExpectedPath ==
    dirname(win.image_path_frame1) \o
        << <<"drag_data_">> \o splitext0(basename(win.image_path_frame1))
               \o <<"_to_">> \o splitext0(basename(win.image_path_frame2))
               \o <<".json">> >>

\* C2: every record the save operation has written has a mask_area of exactly
\* 4 points and source_points and target_points of equal, non-zero length; the
\* record just written lists the points in the index order of the lists in
\* memory.  A mask of 1 to 3 points is never on disk.
C2_RecordsComplete ==
    /\ \A path \in DOMAIN files :
           /\ RecordOf(path).ok
           /\ Len(PointsOf(RecordOf(path), "mask_area")) = 4
           /\ Len(PointsOf(RecordOf(path), "source_points")) >= 1
           /\ Len(PointsOf(RecordOf(path), "source_points")) =
                  Len(PointsOf(RecordOf(path), "target_points"))
    /\ lastMessage = "saved" =>
           /\ ExpectedPath \in DOMAIN files
           /\ PointsOf(RecordOf(ExpectedPath), "mask_area") = win.mask_points_on_combined
           /\ PointsOf(RecordOf(ExpectedPath), "source_points") = win.source_points_on_frame1
           /\ PointsOf(RecordOf(ExpectedPath), "target_points") = win.target_points_on_frame2

\* a record was written whose source list holds two different points and
\* whose target list holds them in the other order
C2_Witness ==
    /\ lastMessage = "saved"
    /\ ExpectedPath \in DOMAIN files
    /\ Len(win.source_points_on_frame1) = 2
    /\ win.source_points_on_frame1[1] /= win.source_points_on_frame1[2]
    /\ win.target_points_on_frame2[1] = win.source_points_on_frame1[2]
    /\ win.target_points_on_frame2[2] = win.source_points_on_frame1[1]

\* the condition a validation message names has failed
MessageNamesFailure(message) ==
    \/ /\ message = "select_both_frames"
       /\ win.image_path_frame1 = NoPath \/ win.image_path_frame2 = NoPath
    \/ /\ message = "select_exactly_4_mask_points"
       /\ Len(win.mask_points_on_combined) /= 4
    \/ /\ message = "select_source_and_target_points"
       /\ Len(win.source_points_on_frame1) = 0 \/ Len(win.target_points_on_frame2) = 0
    \/ /\ message = "source_and_target_counts_must_be_equal"
       /\ Len(win.source_points_on_frame1) /= Len(win.target_points_on_frame2)

\* C3: a save while the gate does not hold changes no file and shows the
\* validation message of a condition that has failed; a save goes on to write
\* the file exactly when the gate of check_save_button_status holds (the write
\* itself either succeeds or reports the I/O error).
C3_SaveGuarded ==
    [][SaveCoordinatesToJson =>
           /\ ~win.save_button =>
                  /\ files' = files
                  /\ MessageNamesFailure(lastMessage')
           /\ win.save_button =>
                  /\ lastMessage' \in {"saved", "save_error"}
                  /\ lastMessage' = "saved" => ExpectedPath \in DOMAIN files'
                  /\ lastMessage' = "save_error" => files' = files]_vars

\* a save was refused because the two lists differ in length
C3_Witness ==
    /\ lastMessage = "source_and_target_counts_must_be_equal"
    /\ ~win.save_button
    /\ Len(win.source_points_on_frame1) = 2
    /\ Len(win.target_points_on_frame2) = 1
    /\ files = << >>

\* C4: a save of a frame pair writes the record to
\* <folder of frame1>/drag_data_<base1>_to_<base2>.json and to no other file;
\* when the pair was saved before, the file is replaced by the new record and
\* no second file is created.
C4_SaveOverwrites ==
    [][(SaveCoordinatesToJson /\ lastMessage' = "saved") =>
           /\ DOMAIN files' = DOMAIN files \cup {ExpectedPath}
           /\ files'[ExpectedPath] = Dumps(
                  << <<"frame1_image", JStr(basename(win.image_path_frame1))>>,
                     <<"frame2_image", JStr(basename(win.image_path_frame2))>>,
                     <<"mask_area", JPts(win.mask_points_on_combined)>>,
                     <<"source_points", JPts(win.source_points_on_frame1)>>,
                     <<"target_points", JPts(win.target_points_on_frame2)>> >>)
           /\ \A path \in DOMAIN files \ {ExpectedPath} : files'[path] = files[path]]_vars

\* two files were written, for one pair of different frames, and one file is
\* there: it holds the two-point record of the second save
C4_Witness ==
    /\ nSaves = 2
    /\ lastMessage = "saved"
    /\ Cardinality(DOMAIN files) = 1
    /\ win.image_path_frame1 /= win.image_path_frame2
    /\ ExpectedPath \in DOMAIN files
    /\ Len(PointsOf(RecordOf(ExpectedPath), "source_points")) = 2

\* the points of a list lie in an image of the given size
PointsWithin(points, pix) ==
    \A i \in 1..Len(points) :
        /\ 0 <= points[i][1] /\ points[i][1] <= pix[1] - 1
        /\ 0 <= points[i][2] /\ points[i][2] <= pix[2] - 1

\* C9: every point in the point session's list and in the mask session's list
\* has 0 <= x <= width - 1 and 0 <= y <= height - 1 of the image that is
\* loaded in that session.
C9_PointsInsideImage ==
    /\ PointsWithin(single.current_points, single._original_pixmap)
    /\ PointsWithin(combined.mask_points, combined.combined_pixmap)

\* both lists hold a point, after a resize
C9_Witness ==
    /\ Len(single.current_points) >= 1
    /\ Len(combined.mask_points) >= 1
    /\ labelSize /= InitialLabelSize

\* C10: the mask session's list never holds more than 4 points, and a press
\* of a mouse button while it holds 4 leaves the list as it is.
C10_MaskAtMostFour ==
    [][/\ Len(combined.mask_points') <= 4
       /\ (CombinedMousePress /\ Len(combined.mask_points) = 4) =>
              combined.mask_points' = combined.mask_points]_vars

\* the left button went down on the image next to the handles of a full
\* mask: no handle is grabbed and the mask still has its 4 points
C10_Witness ==
    /\ win.visible = "combined"
    /\ combined.mask_mode_enabled
    /\ leftHeld
    /\ combined.dragging_point_index = -1
    /\ Len(combined.mask_points) = 4

-----------------------------------------------------------------------------
(* Properties of the coordinate mapping (SpecMap) *)

\* the probe's point lies in the rectangle the image is drawn in
ProbeInside ==
    /\ probe.pix /= NullPixmap
    /\ probe.rect.w > 0 /\ probe.rect.h > 0
    /\ probe.rect.x <= probe.point[1]
    /\ probe.point[1] <= probe.rect.x + probe.rect.w - 1
    /\ probe.rect.y <= probe.point[2]
    /\ probe.point[2] <= probe.rect.y + probe.rect.h - 1

\* how far the round trip moved the point to the left (axis 1) or up (axis 2)
RoundTripShift(axis) == probe.point[axis] - probe.display[axis]

\* C7 as stated: for any image size and any viewport, mapping a point of the
\* drawn image to the original and back gives a point that differs from it by
\* at most one pixel on each axis.
C7_RoundTripWithinOnePixel ==
    probe.stage = "back" =>
        /\ Abs(RoundTripShift(1)) <= 1
        /\ Abs(RoundTripShift(2)) <= 1

\* C7 as the code has it: the round trip never moves the point right or down,
\* and moves it left or up by fewer than 1 + (drawn size / original size)
\* pixels on each axis.  That is at most one pixel when the image is drawn no
\* larger than it is, and more when it is enlarged.
C7_RoundTripWithinScale ==
    probe.stage = "back" =>
        /\ RoundTripShift(1) >= 0
        /\ (RoundTripShift(1) - 1) * probe.pix[1] < probe.rect.w
        /\ RoundTripShift(2) >= 0
        /\ (RoundTripShift(2) - 1) * probe.pix[2] < probe.rect.h
        /\ (probe.rect.w <= probe.pix[1] => RoundTripShift(1) <= 1)
        /\ (probe.rect.h <= probe.pix[2] => RoundTripShift(2) <= 1)

\* a round trip on an image drawn smaller than it is that moved the point by
\* one pixel
C7_Witness ==
    /\ probe.stage = "back"
    /\ probe.rect.w < probe.pix[1]
    /\ probe.rect.h < probe.pix[2]
    /\ RoundTripShift(1) = 1

\* C8: get_original_point_from_display returns None for every display point
\* outside the drawn rectangle, and when no image is loaded; for every point
\* inside it returns a point of the original image.
C8_NoneExactlyOutside ==
    probe.stage \in {"mapped", "back"} =>
        /\ ~ProbeInside => probe.original = NoneP
        /\ ProbeInside =>
               /\ probe.original /= NoneP
               /\ probe.original[1] \in 0..(probe.pix[1] - 1)
               /\ probe.original[2] \in 0..(probe.pix[2] - 1)

\* a point on the right and bottom edge of the drawn rectangle was mapped
C8_Witness ==
    /\ probe.stage = "mapped"
    /\ ProbeInside
    /\ probe.point[1] = probe.rect.x + probe.rect.w - 1
    /\ probe.point[2] = probe.rect.y + probe.rect.h - 1
    /\ probe.original /= NoneP

-----------------------------------------------------------------------------
(* Properties of the viewer (SpecViewer) *)

\* the file is the data root directory or lies in its tree
InDataRoot(file) ==
    LET root == abspath(BASE_DIR)
    IN  Len(root) <= Len(file) /\ SubSeq(file, 1, Len(root)) = root

\* the file a request path resolves to lies outside the data root directory
ResolvesOutside(json_file_path) == ~InDataRoot(abspath(json_file_path))

\* C5: update_caption answers 403 for every json_file_path that resolves
\* outside the data root directory, and no sequence of update requests
\* changes a file outside the data root tree.
C5_OutsideRejected ==
    /\ \A i \in 1..Len(reqs) :
           (/\ reqs[i].json_file_path /= NoPath
            /\ reqs[i].caption /= NoCaption
            /\ ResolvesOutside(reqs[i].json_file_path)) => reqs[i].status = 403
    /\ \A file \in DOMAIN tree :
           ~InDataRoot(file) => tree[file] = InitTree[file]

\* the two requests have updated the same file and both are answered
BothUpdated ==
    /\ Len(reqs) = 2
    /\ reqs[1].json_file_path = InsidePath
    /\ reqs[2].json_file_path = InsidePath
    /\ reqs[1].status = 200
    /\ reqs[2].status = 200

\* C6: when two update_caption requests on the same file are both done, under
\* every interleaving of their steps, the file is a complete well-formed
\* record whose caption is the caption of one of the two requests and whose
\* other fields are the original ones.
C6_LastWriterWins ==
    BothUpdated =>
        LET loaded == Loads(tree[abspath(InsidePath)])
        IN  /\ loaded.ok
            /\ \E i \in 1..2 :
                   loaded.obj = SetKey(ViewerRecord, "caption", JStr(reqs[i].caption))

\* the stored source and target lists are left as they are
StoredListsKept ==
    /\ win'.source_points_on_frame1 = win.source_points_on_frame1
    /\ win'.target_points_on_frame2 = win.target_points_on_frame2

\* C14: disabling point selection (by its own toggle or by the mask toggle)
\* leaves the stored source and target lists unchanged, and while the point
\* session is disabled no press, move or release of either button changes
\* its point list.
C14_DisablingKeepsData ==
    [][/\ (/\ single.point_mode_enabled
           /\ ~single'.point_mode_enabled
           /\ ToggleSourcePoints \/ ToggleTargetPoints \/ ToggleMaskMode)
              => StoredListsKept
       /\ ~single.point_mode_enabled
              => \/ /\ single'.current_points = single.current_points
                    /\ StoredListsKept
                 \/ ~(SingleMousePress \/ SingleMouseMove \/ SingleMouseRelease)]_vars

\* point selection was switched off with a point in the list and a point
\* stored, and a button was pressed over the image since
C14_Witness ==
    /\ ~single.point_mode_enabled
    /\ win.current_point_selection_target = ""
    /\ win.visible = "single"
    /\ Len(single.current_points) > 0
    /\ Len(win.source_points_on_frame1) > 0
    /\ single.dragging_point_index = -1
    /\ leftHeld

\* the .json files of the data root tree
JsonFilesUnderRoot ==
    {f \in DOMAIN tree : InDataRoot(f) /\ f[Len(f)][Len(f[Len(f)])] = ".json"}

\* the file can be read and its text is a JSON object
HoldsObject(f) == ~Unreadable(f) /\ Loads(tree[f]).ok /\ ~Loads(tree[f]).none

ObjectOf(f) == Loads(tree[f]).obj

HasBothFrames(f) ==
    /\ HoldsObject(f)
    /\ HasKey(ObjectOf(f), "frame1_image")
    /\ HasKey(ObjectOf(f), "frame2_image")

\* the caption field is present and not empty
HasCaption(f) ==
    /\ HasKey(ObjectOf(f), "caption")
    /\ Get(ObjectOf(f), "caption") \notin {JStr(<< >>), JNull}

\* what find_files returned to the page request of the step
Found == reqs'[Len(reqs')].found

\* the records of a bucket that come from file f
RecordsFrom(bucket, f) ==
    {r \in bucket :
         /\ HasKey(r, "json_file_path")
         /\ Get(r, "json_file_path") =
                JStr(Tail(PathText(SubSeq(f, Len(WorkDir) + 1, Len(f)))))}

\* the field is the frame name of f's object as a path from the data root to
\* the file's folder and on to the name, written with forward slashes
IsRelativeFrame(field, f, key) ==
    LET name == Get(ObjectOf(f), key).s
        plain == Tail(PathText(Append(SubSeq(f, Len(DataRoot) + 1, Len(f) - 1), name)))
    IN  /\ field.t = "str"
        /\ Len(field.s) = Len(plain)
        /\ \A i \in 1..Len(plain) :
               field.s[i] = IF plain[i] = "\\" THEN "/" ELSE plain[i]

\* C15: find_files places every parseable JSON object under the data root
\* that has both frame keys in exactly one of the two buckets (captioned iff
\* its caption is present and non-empty), omits every JSON lacking a frame
\* key, gives the two frame fields as forward-slash paths relative to the
\* data root, and changes no file.
C15_FindFilesClassifies ==
    [][FindFilesRequest =>
           /\ ~Found.raised
           /\ tree' = tree
           /\ \A f \in JsonFilesUnderRoot :
                  LET without == RecordsFrom(Found.without, f)
                      with == RecordsFrom(Found.with, f)
                  IN  IF HasBothFrames(f)
                      THEN /\ Cardinality(without \cup with) = 1
                           /\ (with /= {}) <=> HasCaption(f)
                           /\ \A r \in without \cup with :
                                  /\ IsRelativeFrame(Get(r, "frame1_image"), f, "frame1_image")
                                  /\ IsRelativeFrame(Get(r, "frame2_image"), f, "frame2_image")
                      ELSE without \cup with = {}
           /\ \A r \in Found.without \cup Found.with :
                  \E f \in JsonFilesUnderRoot : r \in RecordsFrom({r}, f)]_vars

\* the file holds an object whose two frame fields are strings
IsValidRecord(f) ==
    /\ HasBothFrames(f)
    /\ Get(ObjectOf(f), "frame1_image").t = "str"
    /\ Get(ObjectOf(f), "frame2_image").t = "str"

\* C16: every malformed or unreadable .json file is skipped: find_files
\* returns, raising no error, with all the valid records of the tree in its
\* buckets.
C16_FindFilesSkipsBadFiles ==
    [][FindFilesRequest =>
           /\ ~Found.raised
           /\ reqs'[Len(reqs')].status = 200
           /\ \A f \in JsonFilesUnderRoot :
                  IsValidRecord(f) => RecordsFrom(Found.without \cup Found.with, f) /= {}]_vars

\* C17: a successful update_caption changes only the caption field of the
\* target file: the file holds an object whose other fields are the ones the
\* record had, without the fields json_file_path and directory_name, and no
\* other file is changed.
C17_UpdateChangesCaptionOnly ==
    [][\A i \in 1..Len(reqs) :
           (/\ reqs[i].pc = "truncate"
            /\ reqs'[i].status = 200)
           => LET file == abspath(reqs[i].json_file_path)
                  stored == Loads(tree'[file])
              IN  /\ stored.ok
                  /\ ~stored.none
                  /\ ~HasKey(stored.obj, "json_file_path")
                  /\ ~HasKey(stored.obj, "directory_name")
                  /\ \A key \in {"frame1_image", "frame2_image", "mask_area",
                                 "source_points", "target_points"} :
                         /\ HasKey(stored.obj, key)
                         /\ Get(stored.obj, key) = Get(Loads(InitTree[file]).obj, key)
                  /\ Len(stored.obj) = Len(Loads(InitTree[file]).obj) + 1
                  /\ \A other \in DOMAIN tree \ {file} : tree'[other] = tree[other]]_vars

\* the messages save_coordinates_to_json shows; no other handler shows them
SaveMessages ==
    {"select_both_frames", "select_exactly_4_mask_points",
     "select_source_and_target_points", "source_and_target_counts_must_be_equal",
     "saved", "save_error"}

\* the frame paths and the three stored lists are left as they are
AnnotationKept ==
    /\ win'.image_path_frame1 = win.image_path_frame1
    /\ win'.image_path_frame2 = win.image_path_frame2
    /\ win'.source_points_on_frame1 = win.source_points_on_frame1
    /\ win'.target_points_on_frame2 = win.target_points_on_frame2
    /\ win'.mask_points_on_combined = win.mask_points_on_combined

\* C18: a save, whether it writes the file, is refused by a validation or
\* fails on the write, leaves the frame paths and the stored source, target
\* and mask points unchanged.
C18_SaveKeepsAnnotation ==
    [][(lastMessage' \in SaveMessages \/ nSaves' /= nSaves) => AnnotationKept]_vars

\* after a written save a second save failed on the write, and the complete
\* annotation is still in memory
C18_Witness ==
    /\ nSaves = 1
    /\ lastMessage = "save_error"
    /\ win.image_path_frame1 /= NoPath
    /\ win.image_path_frame2 /= NoPath
    /\ Len(win.source_points_on_frame1) = 2
    /\ Len(win.target_points_on_frame2) = 2
    /\ Len(win.mask_points_on_combined) = 4

-----------------------------------------------------------------------------
(* Properties of the announcements (Spec) *)

\* the list the window has stored for the target that is active, as wn has it
StoredForTarget(wn) ==
    IF wn.current_point_selection_target = "frame1_points"
    THEN wn.source_points_on_frame1
    ELSE wn.target_points_on_frame2

TargetActive(wn) ==
    wn.current_point_selection_target \in {"frame1_points", "frame2_points"}

\* C21: a handler that changes the point list of the point session (a point
\* added, removed or dragged, a reset, a loaded image) has emitted
\* points_changed, its last emission carrying the list as the handler leaves
\* it, and the list the window stores for the active target equals the
\* session's list.
C21_PointListAnnounced ==
    [][single'.current_points /= single.current_points =>
           /\ lastEmit'.points_changed = <<single'.current_points>>
           /\ TargetActive(win') => StoredForTarget(win') = single'.current_points]_vars

\* the target point is held by the mouse after a press or a drag move: the
\* list emitted and the list stored for frame 2 are the session's list, and
\* a source list is stored as well
C21_Witness ==
    /\ win.current_point_selection_target = "frame2_points"
    /\ single.dragging_point_index = 0
    /\ leftHeld
    /\ Len(single.current_points) = 1
    /\ lastEmit.points_changed = <<single.current_points>>
    /\ win.target_points_on_frame2 = single.current_points
    /\ win.source_points_on_frame1 /= << >>

\* the step is a mouse move to pos over the mask label
MaskMoveStep(pos) ==
    /\ Running
    /\ win.visible = "combined"
    /\ Apply(combined_mouseMoveEvent(World, pos, Held), leftHeld)

\* pos lies inside the drawn image of the mask label
InsideCombinedImage(pos) ==
    /\ combined.combined_pixmap /= NullPixmap
    /\ ~RectIsNull(combined._drawn_pixmap_rect)
    /\ pos[1] >= combined._drawn_pixmap_rect.x
    /\ pos[1] < combined._drawn_pixmap_rect.x + combined._drawn_pixmap_rect.w
    /\ pos[2] >= combined._drawn_pixmap_rect.y
    /\ pos[2] < combined._drawn_pixmap_rect.y + combined._drawn_pixmap_rect.h

\* C22: a press on the mask label that appends a point emits
\* mask_points_changed exactly when the list thereby holds 4 points, and
\* then with that list (the presses that append the 1st to 3rd point emit
\* nothing); a move inside the drawn image while a handle of a 4-point mask
\* is dragged with the left button held puts the handle at the mapped
\* coordinate and emits the updated 4-point list.
C22_MaskAnnouncedWhenComplete ==
    [][win.visible = "combined" =>
           /\ (/\ Len(combined'.mask_points) = Len(combined.mask_points) + 1
               /\ CombinedMousePress)
              => lastEmit'.mask_points_changed =
                     IF Len(combined'.mask_points) = 4
                     THEN <<combined'.mask_points>>
                     ELSE << >>
           /\ \A pos \in limits.mask_positions :
                  (/\ combined.mask_mode_enabled
                   /\ Len(combined.mask_points) = 4
                   /\ combined.dragging_point_index \in 0..3
                   /\ leftHeld
                   /\ InsideCombinedImage(pos)
                   /\ MaskMoveStep(pos))
                  => /\ Len(combined'.mask_points) = 4
                     /\ combined'.mask_points[combined.dragging_point_index + 1] =
                            combined_get_original_point_from_display(combined, pos)
                     /\ lastEmit'.mask_points_changed = <<combined'.mask_points>>]_vars

\* C23: a release of a mouse button over an enabled session ends the drag (the
\* dragged index is -1 afterwards), leaves the list as it is and emits it
\* whole; while no index is dragged a mouse move changes no point.
C23_ReleaseEndsDrag ==
    [][/\ win.visible = "single" =>
              /\ (single.point_mode_enabled /\ SingleMouseRelease)
                 => /\ single'.dragging_point_index = -1
                    /\ single'.current_points = single.current_points
                    /\ lastEmit'.points_changed = <<single.current_points>>
              /\ (single.dragging_point_index = -1 /\ SingleMouseMove)
                 => single'.current_points = single.current_points
       /\ win.visible = "combined" =>
              /\ (combined.mask_mode_enabled /\ CombinedMouseRelease)
                 => /\ combined'.dragging_point_index = -1
                    /\ combined'.mask_points = combined.mask_points
                    /\ lastEmit'.mask_points_changed = <<combined.mask_points>>
              /\ (combined.dragging_point_index = -1 /\ CombinedMouseMove)
                 => combined'.mask_points = combined.mask_points]_vars

\* the left button was released over the point session after a point was
\* held: no index is dragged and the list of one point was emitted
C23_Witness ==
    /\ win.visible = "single"
    /\ single.point_mode_enabled
    /\ ~leftHeld
    /\ single.dragging_point_index = -1
    /\ Len(single.current_points) = 1
    /\ lastEmit.points_changed = <<single.current_points>>

\* paths given to set_image: an image that exists, one that does not, None
SetImagePaths ==
    {Folder1 \o << <<"b", ".PNG">> >>, Folder1 \o << <<"z", ".png">> >>, NoPath}

\* C24: set_image, called in any state of the window with the path of an
\* image that exists, of one that does not, or with None, leaves the point
\* list of the session empty and emits points_changed with the empty list.
C24_SetImageClears ==
    \A image_path \in SetImagePaths :
        LET w == set_image(World, image_path)
        IN  /\ w.single.current_points = << >>
            /\ w.emit.signal = "points_changed"
            /\ w.emit.points_changed = << << >> >>
            /\ w.single._original_pixmap =
                   IF image_path = Folder1 \o << <<"b", ".PNG">> >>
                   THEN <<3, 1>>
                   ELSE NullPixmap

\* image b was loaded while the source points of frame 1 (image a) are kept
\* by the window: the session's list is empty and the empty list was emitted
C24_Witness ==
    /\ single._original_pixmap = PixmapOf(Folder1 \o << <<"b", ".PNG">> >>)
    /\ win.image_path_frame1 = Folder1 \o << <<"a", ".png">> >>
    /\ win.source_points_on_frame1 /= << >>
    /\ single.current_points = << >>
    /\ lastEmit.points_changed = << << >> >>

\* the mask session's list is empty, the empty list was emitted, the mask the
\* window stores is empty and the save button is disabled
MaskIsReset(w) ==
    /\ w.combined.mask_points = << >>
    /\ w.emit.mask_points_changed = << << >> >>
    /\ w.win.mask_points_on_combined = << >>
    /\ ~w.win.save_button

\* C25: a reset of the mask, in whatever state, leaves the list of the mask
\* session empty and emits mask_points_changed with the empty list; after
\* it the mask the window stores is empty and the save button is disabled.
C25_ResetMaskClears ==
    [][/\ MaskIsReset(reset_mask(World))
       /\ (win.reset_mask_button /\ ResetMaskPoints)
              => MaskIsReset([win |-> win', combined |-> combined',
                              emit |-> lastEmit'])]_vars

\* the mask was reset while one of its handles was held: the list is empty,
\* the empty list was emitted, and the window that had a complete annotation
\* stores no mask and has the save button disabled
C25_Witness ==
    /\ win.visible = "combined"
    /\ combined.dragging_point_index /= -1
    /\ combined.mask_points = << >>
    /\ lastEmit.mask_points_changed = << << >> >>
    /\ win.mask_points_on_combined = << >>
    /\ win.source_points_on_frame1 /= << >>
    /\ Len(win.target_points_on_frame2) = Len(win.source_points_on_frame1)
    /\ ~win.save_button

\* C28: the toggle that activates point selection for frame 1 (frame 2) puts
\* the source (target) points stored before into the point session and
\* leaves the stored list as it was.
C28_ActivationLoadsStoredPoints ==
    [][/\ (/\ win'.current_point_selection_target = "frame1_points"
           /\ ToggleSourcePoints)
          => /\ single'.current_points = win.source_points_on_frame1
             /\ win'.source_points_on_frame1 = win.source_points_on_frame1
       /\ (/\ win'.current_point_selection_target = "frame2_points"
           /\ ToggleTargetPoints)
          => /\ single'.current_points = win.target_points_on_frame2
             /\ win'.target_points_on_frame2 = win.target_points_on_frame2]_vars

-----------------------------------------------------------------------------
(* Properties of the folder choice (SpecFolders) *)

\* the image named by a frame field of the record in file path lies in folder
FrameInFolder(path, key, folder) ==
    \E name \in ListDir(folder) :
        /\ IsImageName(name)
        /\ Get(RecordOf(path).obj, key) = JStr(name)

\* C19: whatever folders and frames were chosen, the two frames of every
\* record a save has written are images of one folder, the folder the record
\* is written to.
C19_FramesOfOneFolder ==
    \A path \in DOMAIN files :
        /\ FrameInFolder(path, "frame1_image", dirname(path))
        /\ FrameInFolder(path, "frame2_image", dirname(path))

\* the step is a click on a folder of the folder list
SelectFolderStep ==
    \E i \in 1..Len(win.folder_list) :
        /\ win'.current_selected_folder = win.folder_list[i]
        /\ SelectFolder

\* no frame is chosen and the three stored lists are empty
AnnotationEmpty(wn) ==
    /\ wn.image_path_frame1 = NoPath
    /\ wn.image_path_frame2 = NoPath
    /\ wn.source_points_on_frame1 = << >>
    /\ wn.target_points_on_frame2 = << >>
    /\ wn.mask_points_on_combined = << >>

\* C20: after a click on a folder, and after the choice of a directory, no
\* frame is chosen and the stored source, target and mask points are empty.
C20_FolderSwitchDiscards ==
    [][(SelectFolderStep \/ SelectDirectory) => AnnotationEmpty(win')]_vars

\* the directories of the file system
AllDirectories == {WorkDir, DataRoot, Folder1, Folder2, Folder3, Folder4, Nested}

\* d is an immediate subdirectory of root
IsImmediateSubdirectory(d, root) ==
    /\ d \in AllDirectories
    /\ Len(d) = Len(root) + 1
    /\ SubSeq(d, 1, Len(root)) = root

\* the name ends, whatever its case, in an extension of the list
EndsInImageExtension(name) ==
    name[Len(name)] \in {".png", ".jpg", ".jpeg", ".gif", ".bmp", ".tiff", ".webp",
                         ".PNG", ".JPG", ".JPEG", ".GIF", ".BMP", ".TIFF", ".WEBP"}

OnlySuccessfulUpdate(i) ==
    /\ reqs[i].kind = "update_caption"
    /\ reqs[i].pc = "done"
    /\ reqs[i].status = 200
    /\ abspath(reqs[i].json_file_path) = abspath(InsidePath)
    /\ \A j \in (1..Len(reqs)) \ {i} :
           \/ reqs[j].kind /= "update_caption"
           \/ reqs[j].status \in {400, 403}
           \/ abspath(reqs[j].json_file_path) /= abspath(InsidePath)

\* C29: a page requested after an update of a record was answered with
\* success shows the record once: in the captioned bucket when the caption
\* sent is not empty, in the uncaptioned bucket when it is the empty string,
\* and with the caption that was sent.
C29_UpdatedCaptionIsFound ==
    [][(/\ Len(reqs') = Len(reqs) + 1
        /\ reqs'[Len(reqs')].kind = "page")
       => \A i \in 1..Len(reqs) :
              OnlySuccessfulUpdate(i) =>
                  LET f == abspath(InsidePath)
                      with == RecordsFrom(Found.with, f)
                      without == RecordsFrom(Found.without, f)
                      bucket == IF reqs[i].caption /= << >> THEN with ELSE without
                      other == IF reqs[i].caption /= << >> THEN without ELSE with
                  IN  /\ Cardinality(bucket) = 1
                      /\ other = {}
                      /\ \A r \in bucket :
                             /\ HasKey(r, "caption")
                             /\ Get(r, "caption") = JStr(reqs[i].caption)]_vars

-----------------------------------------------------------------------------
(* Properties of the describe_images requests (SpecDescribe) *)

\* the response is one of the two structured results
IsStructuredResult(response) ==
    /\ response.json
    /\ \/ /\ Get(response.body, "success") = TRUE
          /\ HasKey(response.body, "description1")
          /\ HasKey(response.body, "description2")
          /\ HasKey(response.body, "combined_description")
       \/ /\ Get(response.body, "success") = FALSE
          /\ HasKey(response.body, "message")

\* C27: every describe_images request is answered with the success result
\* (description1, description2, combined_description) or with
\* {success: false, message}, whatever fails while it is handled.
C27_DescribeEndsStructured ==
    \A i \in 1..Len(reqs) :
        reqs[i].kind = "describe_images" => IsStructuredResult(reqs[i].response)

-----------------------------------------------------------------------------
(* Properties of the point session (SpecPoints) *)

\* the step is the press of a button at pos on the point label
PressStep(pos, button) ==
    /\ Running
    /\ win.visible = "single"
    /\ button = "left" => ~leftHeld
    /\ Apply(single_mousePressEvent(World, pos, button), leftHeld \/ button = "left")

\* the step is a mouse move to pos over the point label
MoveStep(pos) ==
    /\ Running
    /\ win.visible = "single"
    /\ Apply(single_mouseMoveEvent(World, pos, Held), leftHeld)

\* pos lies inside the drawn image of the point label
InsideDrawnImage(pos) ==
    /\ single._original_pixmap /= NullPixmap
    /\ ~RectIsNull(single._drawn_pixmap_rect)
    /\ pos[1] >= single._drawn_pixmap_rect.x
    /\ pos[1] < single._drawn_pixmap_rect.x + single._drawn_pixmap_rect.w
    /\ pos[2] >= single._drawn_pixmap_rect.y
    /\ pos[2] < single._drawn_pixmap_rect.y + single._drawn_pixmap_rect.h

\* the indices (from 1) of the points whose display projection is within the
\* hit radius of pos
HitIndices(pos) ==
    {i \in 1..Len(single.current_points) :
         LET p == single_get_display_point_from_original(single, single.current_points[i])
         IN  p /= NoneP /\ Abs(pos[1] - p[1]) + Abs(pos[2] - p[2]) < HitRadius}

FirstHitIndex(pos) == CHOOSE i \in HitIndices(pos) : \A j \in HitIndices(pos) : i <= j

\* C11: in an enabled point session a left click inside the drawn image that
\* hits an existing point starts a drag on the first such point in insertion
\* order and leaves the list unchanged; every other left click inside the
\* drawn image appends exactly one point, the mapped coordinate of the click.
C11_LeftClickDragsOrAppends ==
    [][\A pos \in limits.positions :
           (/\ single.point_mode_enabled
            /\ InsideDrawnImage(pos)
            /\ PressStep(pos, "left"))
           => IF HitIndices(pos) /= {}
              THEN /\ single'.dragging_point_index = FirstHitIndex(pos) - 1
                   /\ single'.current_points = single.current_points
              ELSE single'.current_points =
                       Append(single.current_points,
                              single_get_original_point_from_display(single, pos))]_vars

\* points is seq without its element at index i
IsWithout(points, seq, i) ==
    /\ Len(points) = Len(seq) - 1
    /\ \A j \in 1..Len(points) : points[j] = IF j < i THEN seq[j] ELSE seq[j + 1]

\* C12: in an enabled point session a right click on an existing point
\* removes exactly the first hit point in insertion order (the remaining
\* points keep their relative order); a right click that hits no point
\* leaves the list unchanged.
C12_RightClickRemovesFirstHit ==
    [][\A pos \in limits.positions :
           (/\ single.point_mode_enabled
            /\ single._original_pixmap /= NullPixmap
            /\ PressStep(pos, "right"))
           => IF HitIndices(pos) /= {}
              THEN IsWithout(single'.current_points, single.current_points,
                             FirstHitIndex(pos))
              ELSE single'.current_points = single.current_points]_vars

\* C13: while a drag is active with the left button held, a move to a
\* position inside the drawn image sets the dragged point, and only it, to
\* the mapped coordinate of the position; a move to a position outside the
\* drawn image changes nothing.
C13_DragMovesOnlyDraggedPoint ==
    [][\A pos \in limits.positions :
           (/\ single.point_mode_enabled
            /\ single.dragging_point_index \in 0..(Len(single.current_points) - 1)
            /\ leftHeld
            /\ MoveStep(pos))
           => IF InsideDrawnImage(pos)
              THEN /\ Len(single'.current_points) = Len(single.current_points)
                   /\ \A i \in 1..Len(single.current_points) :
                          single'.current_points[i] =
                              IF i = single.dragging_point_index + 1
                              THEN single_get_original_point_from_display(single, pos)
                              ELSE single.current_points[i]
              ELSE single'.current_points = single.current_points]_vars

----------------------------------------------------------------------------
\* Properties of the right button over the mask label (Spec)

\* the step is a press of button at pos over the mask label
MaskPressStep(pos, button) ==
    /\ Running
    /\ win.visible = "combined"
    /\ button = "left" => ~leftHeld
    /\ Apply(combined_mousePressEvent(World, pos, button), leftHeld \/ button = "left")

\* the indices (from 1) of the mask handles whose display projection is
\* within the hit radius of pos
MaskHitIndices(pos) ==
    {i \in 1..Len(combined.mask_points) :
         LET p == combined_get_display_point_from_original(combined, combined.mask_points[i])
         IN  p /= NoneP /\ Abs(pos[1] - p[1]) + Abs(pos[2] - p[2]) < HitRadius}

\* C30 as stated: in an enabled mask session a right click inside the drawn
\* image on an existing mask handle removes that handle (the first one hit)
\* from the mask list, as a right click removes a point in the point session.
C30_RightClickRemovesHandle ==
    [][\A pos \in limits.mask_positions :
           (/\ combined.mask_mode_enabled
            /\ InsideCombinedImage(pos)
            /\ MaskHitIndices(pos) /= {}
            /\ MaskPressStep(pos, "right"))
           => IsWithout(combined'.mask_points, combined.mask_points,
                        CHOOSE i \in MaskHitIndices(pos) :
                            \A j \in MaskHitIndices(pos) : i <= j)]_vars

\* C30: a press of the right button over the mask label, on a handle or off
\* it, changes nothing: the mask list, the drag index and the stored mask
\* stay as they are and nothing is announced.
C30_RightClickLeavesMask ==
    [][\A pos \in limits.mask_positions :
           MaskPressStep(pos, "right")
           => /\ combined' = combined
              /\ win'.mask_points_on_combined = win.mask_points_on_combined
              /\ lastEmit'.mask_points_changed = << >>]_vars

C30_Witness ==
    /\ Running
    /\ win.visible = "combined"
    /\ combined.mask_mode_enabled
    /\ \E pos \in limits.mask_positions :
           /\ InsideCombinedImage(pos)
           /\ MaskHitIndices(pos) /= {}
           /\ combined_mousePressEvent(World, pos, "right").combined = combined
           /\ Len(combined.mask_points) = MaskSize

----------------------------------------------------------------------------
\* Properties of the drag index (Spec)

\* C31: in every reachable state the drag index of the point session and of
\* the mask session is -1 or an index into the session's current list, and
\* no mouse move has indexed outside the list (no handler has raised).
C31_DragIndexValid ==
    /\ single.dragging_point_index \in -1..(Len(single.current_points) - 1)
    /\ combined.dragging_point_index \in -1..(Len(combined.mask_points) - 1)
    /\ ~crashed

----------------------------------------------------------------------------
\* Properties of the stored annotation (Spec)

\* the stored mask is left as it is
StoredMaskKept == win'.mask_points_on_combined = win.mask_points_on_combined

\* the step shows another image of the folder: next, previous or a thumbnail
BrowseStep == ShowNextImage \/ ShowPreviousImage \/ ThumbnailClicked

\* C32: a browsing step (next image, previous image, click on a thumbnail)
\* leaves the stored source points, target points and mask points unchanged,
\* whichever point-selection target is active.
C32_BrowsingKeepsAnnotation ==
    [][(StoredListsKept /\ StoredMaskKept) \/ ~BrowseStep]_vars


\* the step is a click on one of the two point-selection toggles
TogglePointsStep == ToggleSourcePoints \/ ToggleTargetPoints

\* C33: a click on the mask toggle (on or off) leaves the stored source and
\* target points unchanged, and a click on a point-selection toggle leaves
\* the stored mask points unchanged.
C33_TogglesKeepOtherAnnotation ==
    [][/\ StoredListsKept \/ ~ToggleMaskMode
       /\ StoredMaskKept \/ ~TogglePointsStep]_vars

\* a point selection is active over a stored mask and stored points of the
\* other frame, or the mask session is active over stored points
C33_Witness ==
    \/ /\ single.point_mode_enabled
       /\ win.current_point_selection_target = "frame1_points"
       /\ win.mask_points_on_combined /= << >>
       /\ win.target_points_on_frame2 /= << >>
    \/ /\ combined.mask_mode_enabled
       /\ win.visible = "combined"
       /\ win.source_points_on_frame1 /= << >>
       /\ win.target_points_on_frame2 /= << >>


\* C34: whenever the save button is enabled, the stored mask (the one save
\* writes) equals the current point list of the mask session (the
\* quadrilateral the mask label draws).
C34_SavedMaskIsShownMask ==
    win.save_button => win.mask_points_on_combined = combined.mask_points


\* the image of the record's folder that the record names under key
FrameOfRecord(path, key) ==
    dirname(path) \o
        << CHOOSE name \in ListDir(dirname(path)) :
               Get(RecordOf(path).obj, key) = JStr(name) >>

\* C35: in every record that save has written, the source points are points
\* of the image named as frame1_image, the target points are points of the
\* image named as frame2_image, and the mask is made of points of the overlay
\* of that pair (which has the size of frame 1): no list was made on an image
\* that the record does not name.
C35_RecordMatchesItsFrames ==
    \A path \in DOMAIN files :
        /\ PointsWithin(PointsOf(RecordOf(path), "source_points"),
                        PixmapOf(FrameOfRecord(path, "frame1_image")))
        /\ PointsWithin(PointsOf(RecordOf(path), "target_points"),
                        PixmapOf(FrameOfRecord(path, "frame2_image")))
        /\ PointsWithin(PointsOf(RecordOf(path), "mask_area"),
                        PixmapOf(FrameOfRecord(path, "frame1_image")))

-----------------------------------------------------------------------------
(* The annotator and the viewer on one disk.  The viewer runs in the         *)
(* directory that holds the data root the annotator saves into, so the       *)
(* records that update_caption rewrites and find_files reads are the files   *)
(* the annotator writes.                                                     *)

\* SpecShared: up to two saves and one update_caption request; both frames
\* are the first image of the folder, a list holds one point, the clicks
\* fall on one place of the image
SharedMaxPoints == 1

SharedMaxSaves == 2

SharedMaxRequests == 1

SharedPositions == {<<29, 29>>}

InitShared ==
    /\ InitAnnotator
    /\ limits = [points |-> SharedMaxPoints, saves |-> SharedMaxSaves,
                 positions |-> SharedPositions, mask_positions |-> SharedPositions,
                 folders |-> {Folder1}]
    /\ probe = NoProbe
    /\ tree = << >>
    /\ reqs = << >>

\* a lone surrogate, which json.loads takes from the request body and the
\* UTF-8 encoder of the file refuses
Surrogate == "\\ud800"

SharedCaptions == {NoCaption, <<"x">>, <<Surrogate>>}

\* the caption can be written to a file opened with encoding='utf-8'
Encodable(caption) == \A i \in 1..Len(caption) : caption[i] /= Surrogate

RECURSIVE DumpedBefore(_, _)
\* the chunks json.dump has written when it comes to the value of key
DumpedBefore(pairs, key) ==
    IF pairs = << >> THEN << >>
    ELSE IF pairs[1][1] = key THEN <<Tok("key", key)>>
    ELSE <<Tok("key", pairs[1][1])>> \o EncodeValue(pairs[1][2])
             \o DumpedBefore(Tail(pairs), key)

\* an update that answers with success and leaves the file as it is
UpdateCaptionUnwritten(fs, json_file_path, caption) ==
    [status |-> IF /\ json_file_path /= NoPath
                   /\ caption /= NoCaption
                   /\ abspath(json_file_path) \in DOMAIN fs
                THEN 200 ELSE 400,
     fs |-> fs]

\* src/app.py lines 149-170 on the file system fs: the checks of the
\* request, then open(json_file_path, 'r+'), json.load, the caption set, the
\* dump from position 0 and truncate().  json.dump writes the text chunk by
\* chunk; a chunk that cannot be encoded raises after the chunks before it
\* were written, and the file is closed as it is then.
update_caption(fs, json_file_path, caption) ==
    LET file == abspath(json_file_path)
        loaded == Loads(fs[file])
        file_data == SetKey(loaded.obj, "caption", JStr(caption))
    IN  IF json_file_path = NoPath \/ caption = NoCaption
        THEN [status |-> 400, fs |-> fs]
        ELSE IF ~PathAllowed(json_file_path)
        THEN [status |-> 403, fs |-> fs]
        ELSE IF file \notin DOMAIN fs
        THEN [status |-> 500, fs |-> fs]
        ELSE IF ~loaded.ok \/ loaded.none
        THEN [status |-> 500, fs |-> fs]
        ELSE IF ~Encodable(caption)
        THEN [status |-> 500,
              fs |-> [fs EXCEPT ![file] =
                         WriteAtStart(@, <<Tok("punct", "{")>>
                                             \o DumpedBefore(file_data, "caption"))]]
        ELSE [status |-> 200,
              fs |-> [fs EXCEPT ![file] =
                         TruncateAt(WriteAtStart(@, Dumps(file_data)),
                                    Len(Dumps(file_data)))]]

\* the paths of the requests: no path, a file that is not there, a file
\* outside the data root, and the records the annotator has saved
SharedPaths == {NoPath, MissingPath, OtherPath} \cup {relpath(file, WorkDir) : file \in DOMAIN files}

\* a request to caption a record, handled from its arrival to its response
UpdateCaptionShared ==
    /\ Len(reqs) < SharedMaxRequests
    /\ \E json_file_path \in SharedPaths, caption \in SharedCaptions :
           LET result == update_caption(files, json_file_path, caption)
           IN  /\ files' = result.fs
               /\ reqs' = Append(reqs,
                      [kind |-> "update_caption", json_file_path |-> json_file_path,
                       caption |-> caption, status |-> result.status])
    /\ UNCHANGED <<win, single, combined, labelSize, leftHeld, lastMessage, lastEmit,
                   nSaves, crashed, limits, probe, tree>>

NextShared ==
    \/ SelectDirectory
    \/ SelectFolder
    \/ SetFrame1Image
    \/ SetFrame2Image
    \/ ToggleSourcePoints
    \/ ToggleTargetPoints
    \/ ToggleMaskMode
    \/ SingleMouseClick
    \/ CombinedMouseClick
    \/ SaveCoordinatesToJson
    \/ UpdateCaptionShared

SpecShared == InitShared /\ [][NextShared]_vars

----------------------------------------------------------------------------
\* Properties of the records on the shared disk (SpecShared)

\* the record of file is in the bucket, a set of records of find_files
InBucket(bucket, file) ==
    \E r \in bucket :
        Get(r, "json_file_path") = JStr(Tail(PathText(relpath(file, WorkDir))))

\* C36 as stated: the caption that a successful update_caption request has written to
\* a record stays: in every later state, also after the annotator has saved
\* the same frame pair again, the file carries that caption and find_files
\* puts the record in the captioned bucket.
C36_CaptionSurvivesSave ==
    \A i \in 1..Len(reqs) :
        reqs[i].status = 200 =>
            LET file == abspath(reqs[i].json_file_path)
            IN  /\ file \in DOMAIN files
                /\ HasKey(RecordOf(file).obj, "caption")
                /\ Get(RecordOf(file).obj, "caption") = JStr(reqs[i].caption)
                /\ InBucket(find_files(files).with, file)


\* the step is a save that writes the file
SaveWrites(file) ==
    /\ nSaves' = nSaves + 1
    /\ OutputPath(win) = file

\* C36 as the code has it: a caption written by a successful update_caption request
\* stays in the file, and the record in the captioned bucket of find_files,
\* until the annotator saves the same frame pair again; that save replaces
\* the file with a record without a caption key, which find_files puts in
\* the uncaptioned bucket.
C36_CaptionUntilResave ==
    [][/\ \A i \in 1..Len(reqs') :
              (reqs'[i].status = 200 /\ i > Len(reqs))
              => LET file == abspath(reqs'[i].json_file_path)
                 IN  /\ HasKey(Loads(files'[file]).obj, "caption")
                     /\ Get(Loads(files'[file]).obj, "caption") = JStr(reqs'[i].caption)
                     /\ InBucket(find_files(files').with, file)
       /\ \A file \in DOMAIN files :
              IF SaveWrites(file)
              THEN /\ ~HasKey(Loads(files'[file]).obj, "caption")
                   /\ InBucket(find_files(files').without, file)
              ELSE reqs' = reqs => files'[file] = files[file]]_vars

\* a captioned record has been saved again: the request was answered with
\* success and the file has no caption
C36_Witness ==
    /\ Len(reqs) = 1
    /\ reqs[1].status = 200
    /\ nSaves = 2
    /\ abspath(reqs[1].json_file_path) \in DOMAIN files
    /\ ~HasKey(RecordOf(abspath(reqs[1].json_file_path)).obj, "caption")
    /\ InBucket(find_files(files).without, abspath(reqs[1].json_file_path))

-----------------------------------------------------------------------------
(* The name of the output file (lines 1071-1076), applied to two frame       *)
(* pairs.                                                                    *)

\* the frames of the pairs: images of the first folder whose names differ in
\* the extension only or have "_to_" in them, and an image of the second
\* folder with the name of one of the first
PathFrames ==
    {Folder1 \o << <<"a", ".png">> >>, Folder1 \o << <<"a", ".jpg">> >>,
     Folder1 \o << <<"b", ".png">> >>, Folder2 \o << <<"b", ".png">> >>,
     Folder1 \o << <<"a", "_to_", "b", ".png">> >>,
     Folder1 \o << <<"b", "_to_", "b", ".png">> >>}

\* the window's two frame fields
FramePair(frame1, frame2) == [image_path_frame1 |-> frame1, image_path_frame2 |-> frame2]

InitPaths ==
    /\ InitAnnotator
    /\ limits = [points |-> MaxPoints, saves |-> MaxSaves,
                 positions |-> Positions, mask_positions |-> Positions,
                 folders |-> {Folder1}]
    /\ tree = << >>
    /\ reqs = << >>
    /\ \E f1 \in PathFrames, f2 \in PathFrames, g1 \in PathFrames, g2 \in PathFrames :
           probe = [stage |-> "pairs", first |-> FramePair(f1, f2),
                    second |-> FramePair(g1, g2),
                    first_path |-> << >>, second_path |-> << >>]

\* the output paths of the two pairs
NameOutputPaths ==
    /\ probe.stage = "pairs"
    /\ probe' = [probe EXCEPT !.stage = "named",
                              !.first_path = OutputPath(probe.first),
                              !.second_path = OutputPath(probe.second)]
    /\ UNCHANGED <<annotatorVars, tree, reqs>>

NextPaths == NameOutputPaths

SpecPaths == InitPaths /\ [][NextPaths]_vars

----------------------------------------------------------------------------
\* Properties of the output path (SpecPaths)

\* C37: two different pairs (frame 1, frame 2) have different output paths,
\* so that a save overwrites only the file of its own frame pair.
C37_DistinctPairsDistinctPaths ==
    (probe.stage = "named" /\ probe.first /= probe.second)
    => probe.first_path /= probe.second_path

----------------------------------------------------------------------------
\* Properties of the two modes (Spec)

\* C38: the point mode of the point label and the mask mode of the mask label
\* are never enabled together.
C38_ModesExclusive == ~(single.point_mode_enabled /\ combined.mask_mode_enabled)

\* the point mode is on after a mask of 4 points was made in the mask mode
C38_Witness ==
    /\ single.point_mode_enabled
    /\ ~combined.mask_mode_enabled
    /\ Len(win.mask_points_on_combined) = MaskSize

----------------------------------------------------------------------------
\* Properties of the failed caption updates (SpecShared)

\* C39: an update_caption request that is not answered with success leaves
\* every file as it was.
C39_FailedUpdateWritesNothing ==
    [][(Len(reqs') > Len(reqs) /\ reqs'[Len(reqs')].status /= 200)
       => files' = files]_vars

-----------------------------------------------------------------------------
(* The viewer's remove_empty_dirs (src/app.py lines 62-67), applied to       *)
(* bounded directory trees below the data root.  A tree is the set of its    *)
(* directories and the set of its files, each a path.                        *)

\* the directories a tree may have below the data root, and its files
TreeDirs ==
    {DataRoot \o << <<"p">> >>, DataRoot \o << <<"p">>, <<"q">> >>,
     DataRoot \o << <<"p">>, <<"q">>, <<"r">> >>,
     DataRoot \o << <<"s">> >>, DataRoot \o << <<"s">>, <<"t">> >>}

TreeFiles ==
    {DataRoot \o << <<"f", ".json">> >>, DataRoot \o << <<"p">>, <<"f", ".json">> >>,
     DataRoot \o << <<"p">>, <<"q">>, <<"r">>, <<"f", ".json">> >>,
     DataRoot \o << <<"s">>, <<"f", ".json">> >>,
     DataRoot \o << <<"s">>, <<"t">>, <<"f", ".json">> >>}

\* the entries of paths that lie directly in the directory top
EntriesIn(paths, top) ==
    {path \in paths : Len(path) = Len(top) + 1 /\ SubSeq(path, 1, Len(top)) = top}

\* the trees of the runs: the data root with some of the directories, each
\* with its parent, and some of the files, each in a directory of the tree
DirTrees ==
    {[dirs |-> ds \cup {DataRoot}, files |-> fs] :
         ds \in {x \in SUBSET TreeDirs :
                     \A d \in x : dirname(d) \in x \cup {DataRoot}},
         fs \in SUBSET TreeFiles} \cap
    {t \in [dirs : SUBSET (TreeDirs \cup {DataRoot}), files : SUBSET TreeFiles] :
         \A f \in t.files : dirname(f) \in t.dirs}

\* os.rmdir(dirpath)
rmdir(fs, dirpath) == [fs EXCEPT !.dirs = @ \ {dirpath}]

RECURSIVE remove_below(_, _)
\* lines 64-67 for the directory top and all below it: the directories below
\* are done first; dirnames and filenames are the names os.walk listed when
\* it came to top, before any directory below it was removed
remove_below(fs, top) ==
    LET dirnames == EntriesIn(fs.dirs, top)
        filenames == EntriesIn(fs.files, top)
        RECURSIVE each(_, _)
        each(f, todo) ==
            IF todo = {} THEN f
            ELSE LET d == CHOOSE d \in todo : TRUE
                 IN  each(remove_below(f, d), todo \ {d})
        after == each(fs, dirnames)
    IN  IF dirnames = {} /\ filenames = {} THEN rmdir(after, top) ELSE after

\* lines 62-67
remove_empty_dirs(fs) ==
    IF DataRoot \notin fs.dirs THEN fs
    ELSE remove_below(fs, DataRoot)

InitDirs ==
    /\ InitAnnotator
    /\ limits = [points |-> MaxPoints, saves |-> MaxSaves,
                 positions |-> Positions, mask_positions |-> Positions,
                 folders |-> {Folder1}]
    /\ tree = << >>
    /\ reqs = << >>
    /\ \E fs \in DirTrees : probe = [stage |-> "start", before |-> fs, after |-> fs]

\* line 174: remove_empty_dirs() before the server starts
RemoveEmptyDirs ==
    /\ probe.stage = "start"
    /\ probe' = [probe EXCEPT !.stage = "done", !.after = remove_empty_dirs(probe.before)]
    /\ UNCHANGED <<annotatorVars, tree, reqs>>

NextDirs == RemoveEmptyDirs

SpecDirs == InitDirs /\ [][NextDirs]_vars

----------------------------------------------------------------------------
\* Properties of remove_empty_dirs (SpecDirs)

\* the directory has no directory and no file in it
IsEmptyDir(fs, d) == EntriesIn(fs.dirs, d) = {} /\ EntriesIn(fs.files, d) = {}

\* C40: after remove_empty_dirs the data root is still there and no
\* directory below it is empty, also none that had only empty directories
\* in it before.
C40_NoEmptyDirLeft ==
    probe.stage = "done"
    => /\ DataRoot \in probe.after.dirs
       /\ \A d \in probe.after.dirs \ {DataRoot} : ~IsEmptyDir(probe.after, d)

=============================================================================
